---- MODULE Spec2Model ----
(***************************************************************************)
(* Semantic search engine of kg-sv30 (src/src/search_api,                  *)
(* src/src/search_core, src/src/search_utils).                             *)
(*                                                                         *)
(* Spec is the asynchronous engine, ClientSpec the two client facades on   *)
(* top of it, EmbSpec the embedding cache of the EmbeddingManager, and      *)
(* CacheSpec an ExpiringCache shared by several threads.  FaultSpec is the *)
(* engine with a scorer that can raise and a fair worker, StoreSpec the     *)
(* engine beside a load_embeddings that runs step by step, SharedSpec the   *)
(* embedding cache under concurrent callers, EvictSpec an ExpiringCache of  *)
(* several entries, and MonitorSpec the SystemLoadMonitor.  OptSpec is the  *)
(* PerformanceOptimizer, MetricsSpec the windows and counters of the        *)
(* PerformanceMetrics, BadSpec the scorer over malformed input,             *)
(* SingletonSpec the module-level singletons under two threads, RetrySpec   *)
(* get_embedding after failures of the model, and PerformSpec and           *)
(* PerformAsyncSpec the facade perform_semantic_search.                     *)
(*                                                                         *)
(* Time is discrete.  A duration read by the code (time.time() - start) is *)
(* a counter advanced by Tick, in tenths of a unit; counters that are only *)
(* compared against a timeout saturate one unit above the largest timeout. *)
(* Similarities are in tenths (0.3 is 3); scaled scores are in eightieths. *)
(* Vectors are unit vectors in the plane at multiples of 60 degrees, named *)
(* by their angle index 0..5.                                              *)
(***************************************************************************)
EXTENDS Integers, Sequences, FiniteSets, TLC

VARIABLES
    model_ready,      \* ModelManager.model_ready (threading.Event)
    loader,           \* the thread of ModelManager._load_model: "loading", "ready", "failed"
    embeddings_dict,  \* EmbeddingManager.embeddings_dict: node id -> <<field, vector>> list
    metadata,         \* EmbeddingManager.metadata ("none" is the initial {})
    embedding_cache,  \* EmbeddingManager.embedding_cache: hash(text) -> vector
    lru,              \* functools.lru_cache of _cached_get_embedding: <<text, value>>, LRU first
    cache_stats,      \* EmbeddingManager.cache_stats
    query_queue,      \* AsyncSearchEngine.query_queue
    result_queues,    \* AsyncSearchEngine.result_queues: request id -> queue of outcomes
    next_id,          \* the next fresh request id (time.time() + uuid4 are unique)
    worker,           \* the worker thread of _process_query_queue
    caller,           \* the threads that call queue_search_request / get_search_result
    reqlog,           \* history: what was submitted, and what happened, per request id
    metrics,          \* PerformanceMetrics.metrics: request and error totals
    system_load,      \* PerformanceMetrics.metrics['system_load'], in tenths
    result_cache,     \* an ExpiringCache (the one of SearchClient.result_cache)
    now,              \* time.time() as read by the ExpiringCache
    sync,             \* the last call of SearchClient.search and what it returned
    ncalls,           \* number of calls made so far to the facades and managers
    cthread           \* the threads that call get / set / clear of the ExpiringCache

vars == <<model_ready, loader, embeddings_dict, metadata, embedding_cache, lru, cache_stats,
          query_queue, result_queues, next_id, worker, caller, reqlog,
          metrics, system_load, result_cache, now, sync, ncalls, cthread>>

embvars == <<embedding_cache, lru, cache_stats>>
mgrvars == <<model_ready, loader, embeddings_dict, metadata>>
engvars == <<query_queue, result_queues, next_id, worker, caller, reqlog>>
cltvars == <<system_load, result_cache, now, sync, ncalls, cthread>>

-----------------------------------------------------------------------------
(* Bounds of the model *)

MaxRequests == 2
MaxTimeout == 1
MaxWait == 1
\* EMBEDDING_CACHE_SIZE (1000 in config.py) scaled down so that overflow is reachable
EMBEDDING_CACHE_SIZE == 2
\* the defaults of SearchResultCache (300.0 seconds, 50 entries), scaled down
RESULT_CACHE_EXPIRY == 1
RESULT_CACHE_SIZE == 1
\* the last instant of the clock of the caches
MaxClock == 2
\* the number of calls of the client facades
MaxCalls == 1
\* the number of calls of get_embedding
MaxLookups == 3
\* the number of calls of SearchClient.search on its own
MaxSearches == 2
\* the number of embedded fields of a node
MaxFields == 1
\* the greatest number of components of a vector in an embeddings file
MaxDim == 2
\* the largest max_size of an ExpiringCache
MaxSize == 1

CacheThreads == {"t1", "t2"}
\* PerformanceMetrics.metrics['system_load'] before the monitor's first sample (0.5)
DefaultLoad == 5
\* the number of search and embedding times that PerformanceMetrics keeps (100 in the
\* code), and the number of samples of each kind that are recorded
Window == 2
MaxEvents == 3

Callers == {"c1"}
RequestIds == 1..MaxRequests
\* Optional[np.ndarray]: None is the empty sequence, a vector v is <<v>>
None == <<>>
Some(v) == <<v>>

Min(a, b) == IF a < b THEN a ELSE b

\* durations are in tenths of the unit of time that one Tick lets pass
Tenths(n) == 10 * n
Sat(d) == Min(d + Tenths(1), Tenths(MaxTimeout + 1))

-----------------------------------------------------------------------------
(* search_core/scoring.py *)

\* 10 * cos(k * 60 degrees), k = 0..5
Cos6 == <<10, 5, -5, -10, -5, 5>>

\* a stored vector on which np.dot raises (another dimension, not numbers)
BadVector == -1

\* np.dot of two unit vectors given by their angle indices; 0.0 when np.dot raises
\* (lines 36-42)
cosine_similarity(query_embedding, doc_embedding) ==
    IF doc_embedding = BadVector THEN 0
    ELSE Cos6[((query_embedding - doc_embedding + 6) % 6) + 1]

\* the inner loop of score_nodes: the first field with the strictly highest score
RECURSIVE best_match(_, _, _, _)
best_match(query_embedding, field_embeddings, i, best) ==
    IF i > Len(field_embeddings) THEN best
    ELSE LET score == cosine_similarity(query_embedding, field_embeddings[i][2])
         IN best_match(query_embedding, field_embeddings, i + 1,
                       IF score > best.score
                       THEN [score |-> score, field |-> field_embeddings[i][1]]
                       ELSE best)

\* node_map = {node["id"]: node for node in nodes}: the ids of the candidate list
node_map(nodes) == {nodes[i] : i \in 1..Len(nodes)}

\* the body of the loop of score_nodes for one node id
score_node(query_embedding, node_id, nodes, node_embeddings, score_threshold, results) ==
    IF node_id \notin node_map(nodes) THEN results
    ELSE LET best == best_match(query_embedding, node_embeddings[node_id], 1,
                                [score |-> 0, field |-> ""])
         IN IF best.score >= score_threshold
            THEN Append(results, [id |-> node_id, score |-> best.score,
                                  field |-> best.field])
            ELSE results

\* sorted(node_embeddings.keys())
RECURSIVE sorted_keys(_)
sorted_keys(S) ==
    IF S = {} THEN <<>>
    ELSE LET m == CHOOSE x \in S : \A y \in S : x <= y
         IN <<m>> \o sorted_keys(S \ {m})

\* results.sort(key=score, reverse=True): stable, equal scores keep their order
RECURSIVE insert_by_score(_, _)
insert_by_score(sorted, r) ==
    IF sorted = <<>> THEN <<r>>
    ELSE IF Head(sorted).score >= r.score
         THEN <<Head(sorted)>> \o insert_by_score(Tail(sorted), r)
         ELSE <<r>> \o sorted

\* a scorer that returns its results in the order it found them
unsorted(results) == results

RECURSIVE sort_by_score(_)
sort_by_score(results) ==
    IF results = <<>> THEN <<>>
    ELSE insert_by_score(sort_by_score(SubSeq(results, 1, Len(results) - 1)),
                         results[Len(results)])

\* a limit that never truncates
limit_results_unbounded(results, top_k) == results

\* results[:top_k] if top_k > 0 else results
limit_results(results, top_k) ==
    IF top_k > 0 THEN SubSeq(results, 1, Min(top_k, Len(results))) ELSE results

scale_factor == 8

scale_scores(results) ==
    [i \in 1..Len(results) |-> [results[i] EXCEPT !.score = @ * scale_factor]]

-----------------------------------------------------------------------------
(* search_core/embeddings.py *)

\* the texts that are embedded; "" is the empty query
Texts == {"q1", "q2", "q3", "q4", "q5"}

\* model.encode(text, normalize_embeddings=True), when it does not raise
encode(text) ==
    CASE text = "q1" -> 0
      [] text = "q2" -> 1
      [] text = "q3" -> 2
      [] text = "q4" -> 3
      [] OTHER -> 4

\* hash(text): equal texts have equal hashes, and two different texts ("q1" and "q5")
\* can have the same hash
pyhash(text) ==
    CASE text = "q1" -> 11
      [] text = "q2" -> 22
      [] text = "q3" -> 33
      [] text = "q4" -> 44
      [] OTHER -> 11

lru_keys(cache) == {cache[i][1] : i \in 1..Len(cache)}
lru_value(cache, text) == (CHOOSE i \in 1..Len(cache) : cache[i][1] = text)
lru_without(cache, text) == SelectSeq(cache, LAMBDA e : e[1] # text)

\* lru_cache(maxsize=EMBEDDING_CACHE_SIZE): a hit moves the entry to the recent end, a
\* miss stores the value (None included) and drops the least recently used entry
lru_touch(cache, text) ==
    Append(lru_without(cache, text), cache[lru_value(cache, text)])

lru_store(cache, text, value) ==
    LET c == Append(cache, <<text, value>>)
    IN IF Len(c) > EMBEDDING_CACHE_SIZE THEN Tail(c) ELSE c

\* what get_embedding returns when it changes nothing
no_embedding ==
    [value |-> None, embedding_cache |-> embedding_cache, lru |-> lru,
     cache_stats |-> cache_stats, invoked |-> FALSE]

\* lines 197-206 of get_embedding, after a miss in the shared cache: the call of
\* _cached_get_embedding, and the store under the lock of what it returned
embed_and_store(text, encode_ok) ==
    LET hit == text \in lru_keys(lru)
        embedding == IF hit THEN lru[lru_value(lru, text)][2]
                     ELSE IF encode_ok THEN Some(encode(text)) ELSE None
        lru2 == IF hit THEN lru_touch(lru, text)
                ELSE lru_store(lru, text, embedding)
    IN IF embedding # None
       THEN [value |-> embedding,
             embedding_cache |-> (pyhash(text) :> embedding[1]) @@ embedding_cache,
             lru |-> lru2,
             cache_stats |-> [cache_stats EXCEPT !.misses = @ + 1],
             invoked |-> ~hit]
       ELSE [no_embedding EXCEPT !.lru = lru2, !.invoked = ~hit]

\* EmbeddingManager.get_embedding(text); encode_ok tells whether model.encode returns
\* (TRUE) or raises (FALSE) should the model be invoked.  The value is a record of the
\* returned embedding and the new cache state.
get_embedding(text, encode_ok) ==
    IF ~model_ready \/ text = "" THEN no_embedding
    ELSE IF pyhash(text) \in DOMAIN embedding_cache
    THEN [no_embedding EXCEPT !.value = Some(embedding_cache[pyhash(text)]),
                              !.cache_stats.hits = @ + 1]
    ELSE embed_and_store(text, encode_ok)

-----------------------------------------------------------------------------
(* search_core/cache.py: ExpiringCache and SearchResultCache *)

\* ExpiringCache.__init__ at time t; cache is the dictionary in insertion order
ExpiringCache(expiry_seconds, max_size, t) ==
    [expiry_seconds |-> expiry_seconds, max_size |-> max_size, cache |-> <<>>,
     last_cleanup |-> t]

\* SearchResultCache.__init__ at time t
SearchResultCache(t) == ExpiringCache(RESULT_CACHE_EXPIRY, RESULT_CACHE_SIZE, t)

cache_keys(rc) == {rc.cache[i].key : i \in 1..Len(rc.cache)}
cache_index(rc, key) == CHOOSE i \in 1..Len(rc.cache) : rc.cache[i].key = key

\* the entries that are left when the entry of key is deleted
cache_del(entries, key) == SelectSeq(entries, LAMBDA e : e.key # key)

\* self.cache[key] = (value, t): a present key keeps its place in the dictionary
cache_put(entries, key, value, t) ==
    LET e == [key |-> key, value |-> value, timestamp |-> t]
    IN IF \E i \in 1..Len(entries) : entries[i].key = key
       THEN [i \in 1..Len(entries) |-> IF entries[i].key = key THEN e ELSE entries[i]]
       ELSE Append(entries, e)

\* current_time - timestamp > self.expiry_seconds
EntryExpired(rc, timestamp, t) == t - timestamp > rc.expiry_seconds

\* _cleanup at time t: every expired entry is removed
cleanup(rc, t) ==
    [rc EXCEPT !.cache = SelectSeq(@, LAMBDA e : ~EntryExpired(rc, e.timestamp, t))]

\* current_time - self.last_cleanup > self.cleanup_interval, the interval being a third
\* of expiry_seconds
CleanupDue(rc, t) == 3 * (t - rc.last_cleanup) > rc.expiry_seconds

\* _maybe_cleanup when no other thread runs in between
maybe_cleanup(rc, t) ==
    IF CleanupDue(rc, t) THEN [cleanup(rc, t) EXCEPT !.last_cleanup = t] ELSE rc

\* an eviction that takes the entry stored last
remove_newest_entry(rc) ==
    IF rc.cache = <<>> THEN rc
    ELSE LET newest == CHOOSE i \in 1..Len(rc.cache) :
                         \A j \in 1..Len(rc.cache) :
                             rc.cache[i].timestamp >= rc.cache[j].timestamp
         IN [rc EXCEPT !.cache = cache_del(@, rc.cache[newest].key)]

\* _remove_oldest_entry: the first entry, in dictionary order, of the least timestamp
remove_oldest_entry(rc) ==
    IF rc.cache = <<>> THEN rc
    ELSE LET oldest == CHOOSE i \in 1..Len(rc.cache) :
                         /\ \A j \in 1..Len(rc.cache) :
                                rc.cache[i].timestamp <= rc.cache[j].timestamp
                         /\ \A j \in 1..(i - 1) :
                                rc.cache[j].timestamp > rc.cache[i].timestamp
         IN [rc EXCEPT !.cache = cache_del(@, rc.cache[oldest].key)]

\* a set that makes room only once the cache holds more than max_size entries
EvictNeededWhenOver(rc, key) == Len(rc.cache) > rc.max_size /\ key \notin cache_keys(rc)

\* the test of line 87
EvictNeeded(rc, key) == Len(rc.cache) >= rc.max_size /\ key \notin cache_keys(rc)

\* a get that takes every entry it finds to be fresh
FreshAlways(rc, timestamp, t) == TRUE

\* time.time() - timestamp <= self.expiry_seconds (line 64)
Fresh(rc, timestamp, t) == t - timestamp <= rc.expiry_seconds

\* the locked part of get (lines 60-72) at time t: the value found (None for a miss)
\* and the cache it leaves
get_locked(rc, key, t) ==
    IF key \in cache_keys(rc)
    THEN LET e == rc.cache[cache_index(rc, key)]
         IN IF Fresh(rc, e.timestamp, t)
            THEN [value |-> Some(e.value), cache |-> rc]
            ELSE [value |-> None, cache |-> [rc EXCEPT !.cache = cache_del(@, key)]]
    ELSE [value |-> None, cache |-> rc]

\* the locked part of set (lines 85-91) at time t
set_locked(rc, key, value, t) ==
    LET room == IF EvictNeeded(rc, key) THEN remove_oldest_entry(rc) ELSE rc
    IN [room EXCEPT !.cache = cache_put(@, key, value, t)]

\* a cache key that tells the timeouts of the searches apart as well
create_cache_key_with_timeout(query, params) ==
    <<query, params.score_threshold, params.top_k, params.timeout>>

\* _create_cache_key: the query with the top_k and score_threshold of the parameters
create_cache_key(query, params) == <<query, params.score_threshold, params.top_k>>

-----------------------------------------------------------------------------
(* search_api/async_engine.py: AsyncSearchEngine *)

\* the embeddings file that load_embeddings reads
Stores == { (1 :> << <<"label", 0>> >>) @@
            (2 :> << <<"label", 1>>, <<"description", 0>> >>) }

OptionSets == { [top_k |-> 1, score_threshold |-> 3, timeout |-> t] :
                    t \in {0, Tenths(MaxTimeout)} }

Payloads == { [query |-> "q1", nodes |-> <<1, 2>>, options |-> o] : o \in OptionSets }

NoPayload == [query |-> "", nodes |-> <<>>,
              options |-> [top_k |-> 0, score_threshold |-> 0, timeout |-> 0]]

\* a result dictionary; error = "" stands for the absence of the "error" key,
\* has_stats for the presence of "stats".  Two fields are history, not part of the
\* code's dictionary: request is the payload the result was computed from, and scan
\* tells how the loop of score_nodes ended ("broke" at line 87, "full" when it ran
\* out of node ids, "none" when it was not entered)
ErrorResult(msg, request) ==
    [error |-> msg, results |-> <<>>, has_stats |-> FALSE, time |-> 0,
     total_nodes |-> 0, timed_out |-> FALSE, results_count |-> 0, request |-> request,
     scan |-> "none"]

NoResult == ErrorResult("", NoPayload)

LocalTimeout == ErrorResult("Request timed out", NoPayload)

InvalidId == ErrorResult("Invalid request ID", NoPayload)

IdleWorker ==
    [pc |-> "idle", rid |-> 0, request |-> NoPayload, query_embedding |-> None,
     node_embeddings |-> <<>>, keys |-> <<>>, idx |-> 0, results |-> <<>>,
     elapsed |-> 0, scan_elapsed |-> 0, result |-> NoResult]

\* a calling thread; api tells whether it calls the engine directly ("engine") or runs
\* AsyncSearchClient.search_async ("async"), args and out are the arguments and the
\* returned list of the latter
NoArgs == [query |-> "", top_k |-> 0, score_threshold |-> 0, timeout |-> 0,
           use_cache |-> FALSE]

IdleCaller ==
    [pc |-> "idle", rid |-> 0, timeout |-> 0, waited |-> 0,
     ret |-> NoResult, api |-> "engine", args |-> NoArgs, out |-> <<>>]

\* the last call of SearchClient.search: "none" before the first call.  how tells
\* the way the call ended ("unavailable" at line 94, "hit" at line 112, "failed" at
\* lines 121 and 128, "computed" at line 152), at the instant it was made, cut
\* whether the scorer stopped on its timeout, store the embeddings it was made with
NoCall == [state |-> "none", args |-> NoArgs, out |-> <<>>, how |-> "none", at |-> 0,
           cut |-> FALSE, store |-> <<>>]

IdleThread == [pc |-> "idle", op |-> "", key |-> 0, current_time |-> 0, ret |-> None]

NoLog == [payload |-> NoPayload, life |-> <<>>]

\* QUEUED -> PROCESSING -> (COMPLETED | TIMED_OUT | FAILED)
OutcomeKind(result) ==
    IF result.error # "" THEN "FAILED"
    ELSE IF result.timed_out THEN "TIMED_OUT" ELSE "COMPLETED"

Logged(rid, what) ==
    [reqlog EXCEPT ![rid].life = IF Len(@) < 4 THEN Append(@, what) ELSE @]

\* the state after construction, but for the embeddings store and the cache
InitButStore ==
    /\ model_ready = FALSE
    /\ loader = "loading"
    /\ embedding_cache = <<>>
    /\ lru = <<>>
    /\ cache_stats = [hits |-> 0, misses |-> 0]
    /\ query_queue = <<>>
    /\ result_queues = <<>>
    /\ next_id = 1
    /\ worker = IdleWorker
    /\ caller = [c \in Callers |-> IdleCaller]
    /\ reqlog = [r \in RequestIds |-> NoLog]
    /\ metrics = [total_requests |-> 0, total_errors |-> 0]
    /\ system_load = DefaultLoad
    /\ now = 0
    /\ sync = NoCall
    /\ ncalls = 0
    /\ cthread = [t \in CacheThreads |-> IdleThread]

\* the state after construction, but for the cache
InitButCache ==
    /\ InitButStore
    /\ embeddings_dict = <<>>
    /\ metadata = "none"

Init ==
    /\ InitButCache
    /\ result_cache = SearchResultCache(0)

-----------------------------------------------------------------------------
(* The worker thread: _process_query_queue and _process_search_request *)

\* time.time() - start_time > timeout, guarded by "timeout and"
Expired(timeout, elapsed) == timeout # 0 /\ elapsed > timeout

\* a worker that takes the newest queued tuple instead of the oldest
NextQueuedNewest == query_queue[Len(query_queue)]

\* a worker that leaves the tuple it took on the queue
RestQueuedKept == query_queue

\* query_queue.get(timeout=1.0): the oldest queued tuple
NextQueued == Head(query_queue)
RestQueued == Tail(query_queue)

\* the state of the worker after the readiness check of lines 105-116
Started(request) ==
    IF ~model_ready
    THEN [IdleWorker EXCEPT !.pc = "post", !.request = request,
                            !.result = ErrorResult("Model not ready", request)]
    ELSE [IdleWorker EXCEPT !.pc = "embedding", !.request = request]

\* lines 75-79 and 105-116: take the next request off the queue, check that the
\* model is ready and read start_time
Dequeue ==
    /\ worker.pc = "idle"
    /\ query_queue # <<>>
    /\ worker' = [Started(NextQueued[2]) EXCEPT !.rid = NextQueued[1]]
    /\ query_queue' = RestQueued
    /\ reqlog' = Logged(NextQueued[1], "PROCESSING")
    /\ UNCHANGED <<metrics, cltvars, mgrvars, embvars, result_queues,
                   next_id, caller>>

\* lines 118-126, and lines 72-80 of score_nodes: the query embedding, the snapshot
\* of the store, and the scorer's own start_time
GenerateEmbedding ==
    /\ worker.pc = "embedding"
    /\ \E encode_ok \in BOOLEAN :
         LET g == get_embedding(worker.request.query, encode_ok)
         IN /\ embedding_cache' = g.embedding_cache
            /\ lru' = g.lru
            /\ cache_stats' = g.cache_stats
            /\ worker' =
                 IF g.value = None
                 THEN [worker EXCEPT !.pc = "post",
                          !.result = ErrorResult("Failed to generate query embedding",
                                                 worker.request)]
                 ELSE IF DOMAIN embeddings_dict = {}
                 THEN [worker EXCEPT !.pc = "post",
                          !.result = ErrorResult("No embeddings available",
                                                 worker.request)]
                 ELSE [worker EXCEPT !.pc = "scan",
                          !.query_embedding = g.value,
                          !.node_embeddings = embeddings_dict,
                          !.keys = sorted_keys(DOMAIN embeddings_dict),
                          !.idx = 1,
                          !.scan_elapsed = 0]
    /\ UNCHANGED <<metrics, cltvars, mgrvars, query_queue, result_queues, next_id,
                   caller, reqlog>>

\* a scan that also stops as soon as no caller waits for its request
ScanTimedOutOrAbandoned ==
    /\ worker.idx <= Len(worker.keys)
    /\ \/ Expired(worker.request.options.timeout, worker.scan_elapsed)
       \/ \A c \in Callers : ~(caller[c].pc = "waiting" /\ caller[c].rid = worker.rid)

\* the timeout test at the top of the loop of score_nodes (line 85)
ScanTimedOut ==
    /\ worker.idx <= Len(worker.keys)
    /\ Expired(worker.request.options.timeout, worker.scan_elapsed)

\* lines 83-133 of score_nodes: one iteration that passes the timeout test
ScoreNode ==
    /\ worker.pc = "scan"
    /\ worker.idx <= Len(worker.keys)
    /\ ~ScanTimedOut
    /\ worker' = [worker EXCEPT
                    !.results = score_node(worker.query_embedding[1],
                                           worker.keys[worker.idx],
                                           worker.request.nodes,
                                           worker.node_embeddings,
                                           worker.request.options.score_threshold, @),
                    !.idx = @ + 1]
    /\ UNCHANGED <<metrics, cltvars, mgrvars, embvars, query_queue,
                   result_queues, next_id, caller, reqlog>>

\* a flag that reports whether the loop of score_nodes stopped early
TimedOutFlagFromBreak == ScanTimedOut

\* "timed_out": timeout and time.time() - start_time > timeout   (line 154)
TimedOutFlag == Expired(worker.request.options.timeout, worker.elapsed)

\* the result dictionary of lines 148-157
SearchResult(results) ==
    [error |-> "", results |-> results, has_stats |-> TRUE, time |-> worker.elapsed,
     total_nodes |-> Len(worker.request.nodes), timed_out |-> TimedOutFlag,
     results_count |-> Len(results), request |-> worker.request,
     scan |-> IF ScanTimedOut THEN "broke" ELSE "full"]

\* the end of the loop (exhausted, or break at line 87), the sort of line 139, and
\* lines 137-157 of _process_search_request
FinishSearch ==
    /\ worker.pc = "scan"
    /\ worker.idx > Len(worker.keys) \/ ScanTimedOut
    /\ worker' = [worker EXCEPT
                    !.pc = "post",
                    !.result = SearchResult(scale_scores(limit_results(
                                   sort_by_score(worker.results),
                                   worker.request.options.top_k)))]
    /\ UNCHANGED <<metrics, cltvars, mgrvars, embvars, query_queue,
                   result_queues, next_id, caller, reqlog>>

\* a worker that puts the result in the queue of another pending request
PostTargetOther ==
    IF \E r \in DOMAIN result_queues : r # worker.rid
    THEN CHOOSE r \in DOMAIN result_queues : r # worker.rid
    ELSE worker.rid

\* the result queue the worker puts the result in (line 83)
PostTarget == worker.rid

\* lines 81-83: post the result if the request id still has a result queue
PostResult ==
    /\ worker.pc = "post"
    /\ IF PostTarget \in DOMAIN result_queues
       THEN /\ result_queues' = [result_queues EXCEPT
                                   ![PostTarget] = Append(@, worker.result)]
            /\ reqlog' = Logged(PostTarget, "POSTED")
       ELSE UNCHANGED <<result_queues, reqlog>>
    /\ worker' = IdleWorker
    /\ UNCHANGED <<metrics, cltvars, mgrvars, embvars, query_queue,
                   next_id, caller>>

-----------------------------------------------------------------------------
(* The calling threads: queue_search_request and get_search_result *)

\* lines 179-197: a fresh request id, its result queue, and query_queue.put; the
\* worker thread is alive, so none is started
Enqueue(p) ==
    /\ next_id <= MaxRequests
    /\ result_queues' = (next_id :> <<>>) @@ result_queues
    /\ query_queue' = Append(query_queue, <<next_id, p>>)
    /\ next_id' = next_id + 1
    /\ reqlog' = [Logged(next_id, "QUEUED") EXCEPT ![next_id].payload = p]

\* AsyncSearchEngine.queue_search_request called directly
queue_search_request(c, p) ==
    /\ caller[c].pc = "idle"
    /\ Enqueue(p)
    /\ caller' = [caller EXCEPT ![c] = IdleCaller]
    /\ UNCHANGED <<metrics, cltvars, mgrvars, embvars, worker>>

\* lines 213-218: the lookup of the result queue and the start of the timed wait
GetCall(c, rid, timeout) ==
    /\ caller[c].pc = "idle"
    /\ caller' = [caller EXCEPT ![c] =
                    IF rid \notin DOMAIN result_queues
                    THEN [IdleCaller EXCEPT !.rid = rid, !.ret = InvalidId]
                    ELSE [IdleCaller EXCEPT !.pc = "waiting", !.rid = rid,
                                            !.timeout = timeout]]
    /\ UNCHANGED <<metrics, cltvars, mgrvars, embvars, query_queue,
                   result_queues, next_id, worker, reqlog>>

\* the queue object the caller waits on holds an item
HasItem(c) ==
    /\ caller[c].rid \in DOMAIN result_queues
    /\ result_queues[caller[c].rid] # <<>>

\* a wait that gives up only once the request has left the query queue
WaitExpiredOnceDequeued(c) ==
    /\ caller[c].waited >= caller[c].timeout
    /\ ~HasItem(c)
    /\ \A i \in 1..Len(query_queue) : query_queue[i][1] # caller[c].rid

\* queue.Queue.get(timeout): Empty is raised once the timeout has passed with no item
WaitExpired(c) == caller[c].waited >= caller[c].timeout /\ ~HasItem(c)

\* PerformanceMetrics.record_request and record_error: the totals
record_request(m) == [m EXCEPT !.total_requests = @ + 1]
record_error(m) == [m EXCEPT !.total_errors = @ + 1]

\* lines 325-331 of search_async: a result with an "error" key gives the empty list
AsyncOut(result) == IF result.error # "" THEN <<>> ELSE result.results

\* the calling thread once get_search_result has returned result; a thread in
\* search_async goes on to the end of that method
Returned(c, result) ==
    [IdleCaller EXCEPT !.rid = caller[c].rid, !.ret = result, !.api = caller[c].api,
                       !.args = caller[c].args,
                       !.out = IF caller[c].api = "async" THEN AsyncOut(result)
                               ELSE <<>>]

Counted(c, result) ==
    IF caller[c].api = "async" /\ result.error # "" THEN record_error(metrics)
    ELSE metrics

\* lines 218-223: the item arrived; the request's entry is deleted
GetItem(c) ==
    /\ caller[c].pc = "waiting"
    /\ HasItem(c)
    /\ caller' = [caller EXCEPT ![c] =
                    Returned(c, Head(result_queues[caller[c].rid]))]
    /\ metrics' = Counted(c, Head(result_queues[caller[c].rid]))
    /\ result_queues' = [r \in DOMAIN result_queues \ {caller[c].rid} |->
                            result_queues[r]]
    /\ UNCHANGED <<cltvars, mgrvars, embvars, query_queue,
                   next_id, worker, reqlog>>

\* lines 224-225: queue.Empty; the entry of the request stays in result_queues
GetTimeout(c) ==
    /\ caller[c].pc = "waiting"
    /\ WaitExpired(c)
    /\ caller' = [caller EXCEPT ![c] = Returned(c, LocalTimeout)]
    /\ metrics' = Counted(c, LocalTimeout)
    /\ UNCHANGED <<cltvars, mgrvars, embvars, query_queue,
                   result_queues, next_id, worker, reqlog>>

-----------------------------------------------------------------------------
(* The environment: the model loader, load_embeddings, and the clock *)

\* a loader that signals readiness however the load ended
SetAlways(ok) == TRUE

\* model_ready.set() is the last statement of the try block of _load_model (line
\* 104): the event is set if no statement before it raised (ok)
SetAfterLoad(ok) == ok

\* ModelManager._load_model, the thread started once by _initialize (lines 60-62);
\* ok tells whether SentenceTransformer(model_name) and the lines after it return
load_model(ok) ==
    /\ loader = "loading"
    /\ loader' = IF ok THEN "ready" ELSE "failed"
    /\ model_ready' = (model_ready \/ SetAfterLoad(ok))
    /\ UNCHANGED <<metrics, cltvars, embeddings_dict, metadata, embvars, engvars>>

\* models.py line 104: the background load succeeded
ModelLoaded == load_model(TRUE)

\* models.py lines 105-106: the background load raised
ModelLoadFailed == load_model(FALSE)

\* embeddings.py lines 85-111: a successful load of a well-formed file
LoadEmbeddings(store) ==
    /\ embeddings_dict' = store
    /\ metadata' = "loaded"
    /\ UNCHANGED <<metrics, cltvars, model_ready, loader, embvars, engvars>>

\* one unit of time passes for the worker and the waiting callers; a timed wait that
\* has reached its deadline returns first
Elapse ==
    /\ \A c \in Callers : caller[c].pc = "waiting" => caller[c].waited < caller[c].timeout
    /\ worker' = [worker EXCEPT
                    !.elapsed = IF worker.pc \in {"embedding", "scan"} THEN Sat(@) ELSE @,
                    !.scan_elapsed = IF worker.pc = "scan" THEN Sat(@) ELSE @]
    /\ caller' = [c \in Callers |->
                    IF caller[c].pc = "waiting"
                    THEN [caller[c] EXCEPT !.waited = @ + Tenths(1)] ELSE caller[c]]
    /\ UNCHANGED <<mgrvars, embvars, query_queue, result_queues, next_id, reqlog>>

\* one unit of time passes; the engine reads durations only
Tick ==
    /\ Elapse
    /\ UNCHANGED <<metrics, cltvars>>

Next ==
    \/ Dequeue
    \/ GenerateEmbedding
    \/ ScoreNode
    \/ FinishSearch
    \/ PostResult
    \/ \E c \in Callers, p \in Payloads : queue_search_request(c, p)
    \/ \E c \in Callers, rid \in RequestIds, t \in 0..MaxWait :
           GetCall(c, rid, Tenths(t))
    \/ \E c \in Callers : GetItem(c)
    \/ \E c \in Callers : GetTimeout(c)
    \/ ModelLoaded
    \/ \E store \in Stores : LoadEmbeddings(store)
    \/ Tick

Spec == Init /\ [][Next]_vars

-----------------------------------------------------------------------------
(* search_api/client.py: SearchClient, and AsyncSearchClient of async_engine.py *)

\* the arguments the facades are called with: a valid top_k and a negative one, a
\* valid score_threshold and one on either side of [0, 1], with and without timeout
ClientArgs ==
    { [query |-> "q1", top_k |-> ks[1], score_threshold |-> ks[2], timeout |-> t,
       use_cache |-> TRUE] :
        ks \in {<<1, 3>>, <<-1, 3>>, <<1, -1>>, <<1, 11>>},
        t \in {0, Tenths(MaxTimeout)} }
    \cup { [query |-> q, top_k |-> 1, score_threshold |-> 3,
            timeout |-> Tenths(MaxTimeout), use_cache |-> q = ""] : q \in {"", "q1"} }

\* search_async has no use_cache argument
AsyncArgs == {args \in ClientArgs : args.use_cache}

NodeLists == { <<1, 2>> }

\* the embeddings files the clients load: the store of the engine, and a well-formed
\* file that holds no embeddings
ClientStores == Stores \cup { <<>> }

\* a facade that takes the search system to be available whatever the model's state
AlwaysAvailable == TRUE

\* a facade that refuses its callers while the system load is above the threshold
AvailableUnlessLoaded == model_ready /\ system_load <= 8

\* is_available(): self.model_manager.is_model_ready()
is_available == model_ready

\* SYSTEM_LOAD_THRESHOLDS['high']
HighLoad == 8

\* lines 301-304 of search_async: under high load a timeout is cut to 0.7 of itself
adjusted_timeout(timeout) ==
    IF system_load > HighLoad /\ timeout # 0 THEN (timeout * 7) \div 10 ELSE timeout

\* timeout or 30.0 (line 321); the 30.0 is scaled down to the longest wait
WaitFor(timeout) == IF timeout # 0 THEN timeout ELSE Tenths(MaxWait)

\* AsyncSearchClient.search_async up to the wait for the result (lines 289-322); the
\* rest of it runs when get_search_result returns.  AsyncSearchClient.search runs
\* this same coroutine to completion.
search_async(c, args, nodes) ==
    /\ caller[c].pc = "idle"
    /\ ncalls < MaxCalls
    /\ ncalls' = ncalls + 1
    /\ IF ~is_available \/ args.query = ""
       THEN /\ caller' = [caller EXCEPT ![c] =
                            [IdleCaller EXCEPT !.api = "async", !.args = args]]
            /\ UNCHANGED <<metrics, query_queue, result_queues, next_id, reqlog>>
       ELSE /\ metrics' = record_request(metrics)
            /\ Enqueue([query |-> args.query, nodes |-> nodes,
                        options |-> [top_k |-> args.top_k,
                                     score_threshold |-> args.score_threshold,
                                     timeout |-> adjusted_timeout(args.timeout)]])
            /\ caller' = [caller EXCEPT ![c] =
                            [IdleCaller EXCEPT !.pc = "waiting", !.rid = next_id,
                                               !.timeout = WaitFor(args.timeout),
                                               !.api = "async", !.args = args]]
    /\ UNCHANGED <<mgrvars, embvars, worker, system_load, result_cache, now, sync,
                   cthread>>

\* the loop of score_nodes run for its first n iterations
RECURSIVE scan(_, _, _, _, _, _)
scan(query_embedding, keys, n, nodes, node_embeddings, score_threshold) ==
    IF n = 0 THEN <<>>
    ELSE score_node(query_embedding, keys[n], nodes, node_embeddings, score_threshold,
                    scan(query_embedding, keys, n - 1, nodes, node_embeddings,
                         score_threshold))

\* a scorer that walks the keys of the store in an order that changes from one call
\* to the next
score_nodes_in_turn(query_embedding, nodes, node_embeddings, score_threshold, n) ==
    LET keys == sorted_keys(DOMAIN node_embeddings)
        turned == IF ncalls % 2 = 0 THEN keys
                  ELSE [i \in 1..Len(keys) |-> keys[Len(keys) + 1 - i]]
    IN sort_by_score(scan(query_embedding, turned, n, nodes, node_embeddings,
                          score_threshold))

\* SearchScorer.score_nodes when its loop ends after n iterations
score_nodes(query_embedding, nodes, node_embeddings, score_threshold, n) ==
    sort_by_score(scan(query_embedding, sorted_keys(DOMAIN node_embeddings), n, nodes,
                       node_embeddings, score_threshold))

\* the numbers of iterations after which the loop of score_nodes can end: all of
\* them without a timeout, any number with one
ScanLengths(node_embeddings, timeout) ==
    IF timeout = 0 THEN {Cardinality(DOMAIN node_embeddings)}
    ELSE 0..Cardinality(DOMAIN node_embeddings)

\* SearchClient.search past the availability check (lines 97-157) of a client whose
\* self.result_cache is rc: the list returned and the state left behind
search_with(rc, args, nodes, encode_ok, n) ==
    LET key == create_cache_key(args.query, args)
        looked == IF args.use_cache
                  THEN get_locked(maybe_cleanup(rc, now), key, now)
                  ELSE [value |-> None, cache |-> rc]
        g == get_embedding(args.query, encode_ok)
        results == scale_scores(limit_results(
                       score_nodes(g.value[1], nodes, embeddings_dict,
                                   args.score_threshold, n),
                       args.top_k))
        counted == record_request(metrics)
        same == [out |-> <<>>, result_cache |-> looked.cache, metrics |-> counted,
                 embedding_cache |-> g.embedding_cache, lru |-> g.lru,
                 cache_stats |-> g.cache_stats, how |-> "failed", cut |-> FALSE]
    IN IF looked.value # None
       THEN [same EXCEPT !.out = looked.value[1], !.how = "hit",
                         !.embedding_cache = embedding_cache, !.lru = lru,
                         !.cache_stats = cache_stats]
       ELSE IF g.value = None \/ DOMAIN embeddings_dict = {}
       THEN [same EXCEPT !.metrics = record_error(counted)]
       ELSE [same EXCEPT !.out = results, !.how = "computed",
                         !.cut = n < Cardinality(DOMAIN embeddings_dict),
                         !.result_cache =
                             IF args.use_cache
                             THEN set_locked(maybe_cleanup(looked.cache, now), key,
                                             results, now)
                             ELSE looked.cache]

\* the same for the client of the clients' specifications, whose cache is result_cache
search_body(args, nodes, encode_ok, n) == search_with(result_cache, args, nodes, encode_ok, n)

\* SearchClient.search
search(args, nodes) ==
    /\ ncalls' = ncalls + 1
    /\ IF ~is_available \/ args.query = ""
       THEN /\ sync' = [state |-> "returned", args |-> args, out |-> <<>>,
                        how |-> "unavailable", at |-> now, cut |-> FALSE,
                        store |-> embeddings_dict]
            /\ UNCHANGED <<metrics, result_cache, embvars>>
       ELSE \E encode_ok \in BOOLEAN,
               n \in ScanLengths(embeddings_dict, args.timeout) :
                LET r == search_body(args, nodes, encode_ok, n)
                IN /\ sync' = [state |-> "returned", args |-> args, out |-> r.out,
                                how |-> r.how, at |-> now, cut |-> r.cut,
                                store |-> embeddings_dict]
                   /\ metrics' = r.metrics
                   /\ result_cache' = r.result_cache
                   /\ embedding_cache' = r.embedding_cache
                   /\ lru' = r.lru
                   /\ cache_stats' = r.cache_stats
    /\ UNCHANGED <<mgrvars, engvars, system_load, now, cthread>>

\* a call of SearchClient.search by a user of the two facades
ClientSearch(args, nodes) ==
    /\ ncalls < MaxCalls
    /\ search(args, nodes)

\* The timeouts of the engine are an order of magnitude below the expiry of the
\* result cache (30 against 300 seconds), so no Tick moves the clock of the cache on.
ClientNext ==
    \/ Dequeue
    \/ GenerateEmbedding
    \/ ScoreNode
    \/ FinishSearch
    \/ PostResult
    \/ \E c \in Callers, args \in AsyncArgs, nodes \in NodeLists :
           search_async(c, args, nodes)
    \/ \E c \in Callers : GetItem(c)
    \/ \E c \in Callers : GetTimeout(c)
    \/ \E args \in ClientArgs, nodes \in NodeLists : ClientSearch(args, nodes)
    \/ ModelLoaded
    \/ \E store \in ClientStores : LoadEmbeddings(store)
    \/ Tick

ClientSpec == Init /\ [][ClientNext]_vars

-----------------------------------------------------------------------------
(* AsyncSearchClient while the load monitor updates the system load *)

\* the load samples: the default, the 'high' threshold itself, and one above it
Loads == {DefaultLoad, HighLoad, HighLoad + 1}

\* PerformanceMetrics.update_system_load(load_value)
update_system_load(load_value) ==
    /\ system_load' = load_value
    /\ UNCHANGED <<mgrvars, embvars, engvars, metrics, result_cache, now, sync, ncalls,
                   cthread>>

AdaptNext ==
    \/ Dequeue
    \/ GenerateEmbedding
    \/ ScoreNode
    \/ FinishSearch
    \/ PostResult
    \/ \E c \in Callers, args \in AsyncArgs, nodes \in NodeLists :
           search_async(c, args, nodes)
    \/ \E c \in Callers : GetItem(c)
    \/ \E c \in Callers : GetTimeout(c)
    \/ ModelLoaded
    \/ \E store \in Stores : LoadEmbeddings(store)
    \/ Tick
    \/ \E load_value \in Loads : update_system_load(load_value)

AdaptSpec == Init /\ [][AdaptNext]_vars

-----------------------------------------------------------------------------
(* The worker thread when scoring can raise, and its scheduling *)

\* a worker thread that an exception raised by the scorer ends
WorkerDies ==
    /\ worker.pc = "scan"
    /\ worker' = [worker EXCEPT !.pc = "dead"]
    /\ UNCHANGED <<metrics, cltvars, mgrvars, embvars, query_queue,
                   result_queues, next_id, caller, reqlog>>

\* lines 159-161 of _process_search_request: an exception raised by score_nodes,
\* limit_results or scale_scores becomes an error outcome
ScoringFailed ==
    /\ worker.pc = "scan"
    /\ worker' = [worker EXCEPT !.pc = "post",
                     !.result = ErrorResult("exception", worker.request)]
    /\ UNCHANGED <<metrics, cltvars, mgrvars, embvars, query_queue,
                   result_queues, next_id, caller, reqlog>>

\* one step of the loop of _process_query_queue (lines 72-89)
WorkerStep ==
    \/ Dequeue
    \/ GenerateEmbedding
    \/ ScoreNode
    \/ FinishSearch
    \/ ScoringFailed
    \/ PostResult

\* callers enqueue requests and wait for the outcomes with no timeout, while the
\* model and the store load
FaultNext ==
    \/ WorkerStep
    \/ \E c \in Callers, p \in Payloads : queue_search_request(c, p)
    \/ \E c \in Callers, rid \in RequestIds : GetCall(c, rid, 0)
    \/ \E c \in Callers : GetItem(c)
    \/ ModelLoaded
    \/ \E store \in Stores : LoadEmbeddings(store)

\* the worker is a thread of its own whose loop never ends (self.running is
\* never reset), so a step it can take is taken
FaultSpec == Init /\ [][FaultNext]_vars /\ WF_vars(WorkerStep)

-----------------------------------------------------------------------------
(* load_embeddings running step by step in a thread of its own while the worker *)
(* serves requests; sync holds the loading thread's local variables             *)

\* the embeddings files that are loaded one after another
StoreFiles == Stores \cup { (1 :> << <<"label", 1>> >>) }

Converting(file, local) == [state |-> "converting", file |-> file, local |-> local]

\* a load that writes the converted nodes into the dictionary already in use
updated_in_place(old, local) == local @@ old

\* line 108: self.embeddings_dict = embeddings_dict, the dictionary built locally
published(old, local) == local

\* lines 85-95: the metadata, then the lock is taken and the local dictionary is empty
LoadStart(file) ==
    /\ sync.state # "converting"
    /\ sync' = Converting(file, <<>>)
    /\ metadata' = "loaded"
    /\ UNCHANGED <<metrics, model_ready, loader, embeddings_dict, embvars, engvars,
                   system_load, result_cache, now, ncalls, cthread>>

\* lines 96-105: one node of the file is converted into the local dictionary
LoadConvert ==
    /\ sync.state = "converting"
    /\ DOMAIN sync.local # DOMAIN sync.file
    /\ LET node_id == CHOOSE k \in DOMAIN sync.file \ DOMAIN sync.local :
                          \A j \in DOMAIN sync.file \ DOMAIN sync.local : k <= j
       IN sync' = Converting(sync.file, (node_id :> sync.file[node_id]) @@ sync.local)
    /\ UNCHANGED <<metrics, mgrvars, embvars, engvars, system_load, result_cache, now,
                   ncalls, cthread>>

\* line 108, and the release of the lock
LoadPublish ==
    /\ sync.state = "converting"
    /\ DOMAIN sync.local = DOMAIN sync.file
    /\ embeddings_dict' = published(embeddings_dict, sync.local)
    /\ sync' = NoCall
    /\ UNCHANGED <<metrics, model_ready, loader, metadata, embvars, engvars,
                   system_load, result_cache, now, ncalls, cthread>>

\* lines 118-126 of the worker: get_embedding and get_embeddings_dict take the lock
\* of the manager, which the loading thread holds while it converts
GetSnapshot ==
    /\ sync.state # "converting"
    /\ GenerateEmbedding

StoreNext ==
    \/ Dequeue
    \/ GetSnapshot
    \/ ScoreNode
    \/ FinishSearch
    \/ PostResult
    \/ \E c \in Callers, p \in Payloads : queue_search_request(c, p)
    \/ ModelLoaded
    \/ \E file \in StoreFiles : LoadStart(file)
    \/ LoadConvert
    \/ LoadPublish

StoreSpec == Init /\ [][StoreNext]_vars

-----------------------------------------------------------------------------
(* search_utils/metrics.py: SystemLoadMonitor.  sync is the monitor object and   *)
(* the position of the thread that calls start and stop; cthread holds the       *)
(* threads that run _monitor_loop ("idle" is a thread not yet created)           *)

\* the monitor after __init__ (lines 170-173)
NewMonitor == [state |-> "monitor", running |-> FALSE, thread |-> "none", pc |-> "idle"]

Monitor == IF sync.state = "monitor" THEN sync ELSE NewMonitor

\* start(), lines 177-182: nothing when running is set, else a new thread
start(t) ==
    /\ Monitor.pc = "idle"
    /\ ~Monitor.running
    /\ cthread[t].pc \in {"idle", "done"}
    /\ sync' = [Monitor EXCEPT !.running = TRUE, !.thread = t]
    /\ cthread' = [cthread EXCEPT ![t].pc = "check"]
    /\ UNCHANGED <<mgrvars, embvars, engvars, metrics, system_load, result_cache, now,
                   ncalls>>

\* stop(), lines 187-188: the flag is reset, and the thread, if any, is joined
stop ==
    /\ Monitor.pc = "idle"
    /\ sync' = [Monitor EXCEPT !.running = FALSE,
                               !.pc = IF Monitor.thread # "none" THEN "joining"
                                      ELSE "idle"]
    /\ UNCHANGED <<mgrvars, embvars, engvars, metrics, system_load, result_cache, now,
                   ncalls, cthread>>

\* self.thread.join(timeout=1.0), line 189: it returns when the thread has ended,
\* or after one second, which a thread asleep for the interval (5.0 by default)
\* can outlast
join ==
    /\ Monitor.pc = "joining"
    /\ cthread[Monitor.thread].pc \in {"done", "sleep"}
    /\ sync' = [Monitor EXCEPT !.pc = "idle"]
    /\ UNCHANGED <<mgrvars, embvars, engvars, metrics, system_load, result_cache, now,
                   ncalls, cthread>>

\* while self.running (line 194)
LoopTest(t) ==
    /\ cthread[t].pc = "check"
    /\ cthread' = [cthread EXCEPT ![t].pc = IF Monitor.running THEN "sample" ELSE "done"]
    /\ UNCHANGED <<mgrvars, embvars, engvars, metrics, system_load, result_cache, now,
                   sync, ncalls>>

\* lines 196-197: the load is read and written to the metrics
Sample(t, load_value) ==
    /\ cthread[t].pc = "sample"
    /\ system_load' = load_value
    /\ cthread' = [cthread EXCEPT ![t].pc = "sleep"]
    /\ UNCHANGED <<mgrvars, embvars, engvars, metrics, result_cache, now, sync, ncalls>>

\* time.sleep(self.interval) returns (lines 204 and 207)
Wake(t) ==
    /\ cthread[t].pc = "sleep"
    /\ cthread' = [cthread EXCEPT ![t].pc = "check"]
    /\ UNCHANGED <<mgrvars, embvars, engvars, metrics, system_load, result_cache, now,
                   sync, ncalls>>

MonitorNext ==
    \/ \E t \in CacheThreads : start(t)
    \/ stop
    \/ join
    \/ \E t \in CacheThreads : LoopTest(t)
    \/ \E t \in CacheThreads, load_value \in Loads : Sample(t, load_value)
    \/ \E t \in CacheThreads : Wake(t)

MonitorSpec == Init /\ [][MonitorNext]_vars

-----------------------------------------------------------------------------
(* search_api/performance.py: PerformanceOptimizer.  Loads are in tenths, the     *)
(* timeouts given in tenths of a second, the timeouts returned in hundredths     *)

\* SYSTEM_LOAD_THRESHOLDS['medium'] (0.6)
MediumLoad == 6

\* every load the monitor can report
AllLoads == 0..10

\* the parameter dictionaries given to optimize_search_params; None is a key that
\* is absent or whose value is None
OptParams == [timeout : {None, Some(0), Some(Tenths(1)), Some(Tenths(3))},
              top_k : {1},
              batch_size : {None, Some(50)}]

\* a classification that takes a load equal to a threshold to be below it
get_load_level_above ==
    IF system_load > HighLoad THEN "high"
    ELSE IF system_load > MediumLoad THEN "medium"
    ELSE "low"

\* get_load_level, lines 62-69
get_load_level ==
    IF system_load >= HighLoad THEN "high"
    ELSE IF system_load >= MediumLoad THEN "medium"
    ELSE "low"

\* LOAD_ADJUSTMENTS['timeout_factor'], in tenths
timeout_factor(load_level) ==
    CASE load_level = "low" -> 10 [] load_level = "medium" -> 9 [] OTHER -> 7

\* LOAD_ADJUSTMENTS['batch_size']
batch_size(load_level) ==
    CASE load_level = "low" -> 1000 [] load_level = "medium" -> 500 [] OTHER -> 200

\* lines 83-98: the dictionary returned for base_params
optimized_params(base_params) ==
    LET load_level == get_load_level
        copied == base_params
        timed == IF base_params.timeout # None
                 THEN [copied EXCEPT !.timeout =
                          Some(base_params.timeout[1] * timeout_factor(load_level))]
                 ELSE copied
    IN [timed EXCEPT !.batch_size = Some(batch_size(load_level))]

\* optimize_search_params(base_params): sync keeps the call, the dictionary the
\* caller passed as it is after the call, and the dictionary returned
optimize_search_params(base_params) ==
    /\ sync' = [state |-> "optimized", load |-> system_load, given |-> base_params,
                base_params |-> base_params, out |-> optimized_params(base_params)]
    /\ UNCHANGED <<mgrvars, embvars, engvars, metrics, system_load, result_cache, now,
                   ncalls, cthread>>

OptNext ==
    \/ \E load_value \in AllLoads : update_system_load(load_value)
    \/ \E base_params \in OptParams : optimize_search_params(base_params)

OptSpec == Init /\ [][OptNext]_vars

-----------------------------------------------------------------------------
(* search_utils/metrics.py: PerformanceMetrics.  sync is the metrics dictionary  *)
(* but for the two totals, which metrics holds; the n-th time recorded is n, and *)
(* events and outcomes are history: every cache event and every request so far  *)

\* the dictionary after __init__ (lines 29-42)
NewMetrics ==
    [state |-> "metrics", search_times |-> <<>>, embedding_times |-> <<>>,
     hits |-> 0, misses |-> 0, n_search |-> 0, n_embedding |-> 0,
     events |-> <<>>, outcomes |-> <<>>]

PM == IF sync.state = "metrics" THEN sync ELSE NewMetrics

\* lines 74-76 and 87-89: append, then drop the first once the list is too long
appended(times, elapsed_seconds) ==
    LET longer == Append(times, elapsed_seconds)
    IN IF Len(longer) > Window THEN Tail(longer) ELSE longer

record_search_time ==
    /\ PM.n_search < MaxEvents
    /\ sync' = [PM EXCEPT !.search_times = appended(@, PM.n_search + 1),
                          !.n_search = @ + 1]
    /\ UNCHANGED <<mgrvars, embvars, engvars, metrics, system_load, result_cache, now,
                   ncalls, cthread>>

record_embedding_time ==
    /\ PM.n_embedding < MaxEvents
    /\ sync' = [PM EXCEPT !.embedding_times = appended(@, PM.n_embedding + 1),
                          !.n_embedding = @ + 1]
    /\ UNCHANGED <<mgrvars, embvars, engvars, metrics, system_load, result_cache, now,
                   ncalls, cthread>>

\* record_cache_event(hit), lines 98-102
record_cache_event(hit) ==
    /\ Len(PM.events) < MaxEvents
    /\ sync' = [PM EXCEPT !.hits = IF hit THEN @ + 1 ELSE @,
                          !.misses = IF hit THEN @ ELSE @ + 1,
                          !.events = Append(@, hit)]
    /\ UNCHANGED <<mgrvars, embvars, engvars, metrics, system_load, result_cache, now,
                   ncalls, cthread>>

\* one search counted by record_request (lines 104-111) and, when it failed, by
\* record_error (lines 120-124)
RecordSearch(failed) ==
    /\ Len(PM.outcomes) < MaxEvents
    /\ metrics' = IF failed THEN record_error(record_request(metrics))
                  ELSE record_request(metrics)
    /\ sync' = [PM EXCEPT !.outcomes = Append(@, failed)]
    /\ UNCHANGED <<mgrvars, embvars, engvars, system_load, result_cache, now, ncalls,
                   cthread>>

RECURSIVE SumSeq(_)
SumSeq(q) == IF q = <<>> THEN 0 ELSE Head(q) + SumSeq(Tail(q))

\* get_summary, lines 133-156; the averages and the rates are rounded down
get_summary ==
    [system_load |-> system_load,
     avg_search_time |-> IF PM.search_times # <<>>
                         THEN SumSeq(PM.search_times) \div Len(PM.search_times) ELSE 0,
     avg_embedding_time |-> IF PM.embedding_times # <<>>
                            THEN SumSeq(PM.embedding_times) \div Len(PM.embedding_times)
                            ELSE 0,
     cache_hit_rate |-> IF PM.hits + PM.misses # 0
                        THEN (PM.hits * 100) \div (PM.hits + PM.misses) ELSE 0,
     total_requests |-> metrics.total_requests,
     total_errors |-> metrics.total_errors,
     error_rate |-> IF metrics.total_requests > 0
                    THEN (metrics.total_errors * 100) \div metrics.total_requests ELSE 0]

MetricsNext ==
    \/ record_search_time
    \/ record_embedding_time
    \/ \E hit \in BOOLEAN : record_cache_event(hit)
    \/ \E failed \in BOOLEAN : RecordSearch(failed)

MetricsSpec == Init /\ [][MetricsNext]_vars

-----------------------------------------------------------------------------
(* The singletons: ModelManager.__new__ and EmbeddingManager.__new__ under their *)
(* class locks, and get_metrics.  sync holds the class attributes and the module *)
(* global, cthread the calling threads: op is what a thread called, key the      *)
(* instance it was given; instances are numbered in the order of their creation *)

Classes == {"ModelManager", "EmbeddingManager"}

\* the classes and the module of metrics.py once imported
Imported ==
    [state |-> "imported",
     lock |-> [cls \in Classes |-> "none"],
     instance |-> [cls \in Classes |-> 0],
     initialized |-> [cls \in Classes |-> 0],
     loaders |-> 0,
     metrics_instance |-> 0,
     made |-> 0]

Module == IF sync.state = "imported" THEN sync ELSE Imported

\* a __new__ that does not wait for the lock of its class
lock_ignored(cls) == TRUE

\* with cls._lock: the lock can be taken
lock_free(cls) == Module.lock[cls] = "none"

\* a thread calls get_model_manager(), get_embedding_manager() or get_metrics()
CallGetter(t, op) ==
    /\ cthread[t].pc \in {"idle", "done"}
    /\ cthread' = [cthread EXCEPT ![t] = [IdleThread EXCEPT !.pc = "called", !.op = op]]
    /\ UNCHANGED <<mgrvars, embvars, engvars, metrics, system_load, result_cache, now,
                   sync, ncalls>>

\* lines 46-48 of models.py, 38-40 of embeddings.py: the lock, the test, and the
\* new object bound to cls._instance
New(t) ==
    /\ cthread[t].pc = "called"
    /\ cthread[t].op \in Classes
    /\ lock_free(cthread[t].op)
    /\ LET cls == cthread[t].op
       IN IF Module.instance[cls] = 0
          THEN /\ sync' = [Module EXCEPT !.lock[cls] = t, !.instance[cls] = 1]
               /\ cthread' = [cthread EXCEPT ![t].pc = "initialize"]
          ELSE /\ sync' = [Module EXCEPT !.lock[cls] = t]
               /\ cthread' = [cthread EXCEPT ![t].pc = "return"]
    /\ UNCHANGED <<mgrvars, embvars, engvars, metrics, system_load, result_cache, now,
                   ncalls>>

\* ModelManager._initialize (models.py 52-62), which starts the loader thread, for
\* the object that __new__ has just bound to cls._instance
InitializeModelManager(m) ==
    [m EXCEPT !.initialized["ModelManager"] = @ + 1, !.loaders = @ + 1]

\* cls._instance._initialize(), line 49 of models.py and line 41 of embeddings.py;
\* that of the EmbeddingManager calls get_model_manager() (line 46), which takes
\* the lock of ModelManager and creates the instance if there is none
Initialize(t) ==
    /\ cthread[t].pc = "initialize"
    /\ LET cls == cthread[t].op
           m == [Module EXCEPT !.initialized[cls] = @ + 1]
       IN IF cls = "ModelManager"
          THEN sync' = [m EXCEPT !.loaders = @ + 1]
          ELSE /\ lock_free("ModelManager")
               /\ sync' = IF Module.instance["ModelManager"] = 0
                          THEN InitializeModelManager(
                                   [m EXCEPT !.instance["ModelManager"] = 1])
                          ELSE m
    /\ cthread' = [cthread EXCEPT ![t].pc = "return"]
    /\ UNCHANGED <<mgrvars, embvars, engvars, metrics, system_load, result_cache, now,
                   ncalls>>

\* return cls._instance, and the lock is released
ReturnInstance(t) ==
    /\ cthread[t].pc = "return"
    /\ cthread' = [cthread EXCEPT ![t].pc = "done",
                                  ![t].key = Module.instance[cthread[t].op]]
    /\ sync' = [Module EXCEPT !.lock[cthread[t].op] =
                                 IF @ = t THEN "none" ELSE @]
    /\ UNCHANGED <<mgrvars, embvars, engvars, metrics, system_load, result_cache, now,
                   ncalls>>

\* get_metrics, line 243: if _metrics_instance is None
MetricsTest(t) ==
    /\ cthread[t].pc = "called"
    /\ cthread[t].op = "get_metrics"
    /\ cthread' = [cthread EXCEPT ![t].pc = IF Module.metrics_instance = 0
                                            THEN "make" ELSE "read"]
    /\ UNCHANGED <<mgrvars, embvars, engvars, metrics, system_load, result_cache, now,
                   sync, ncalls>>

\* line 244: _metrics_instance = PerformanceMetrics()
MetricsMake(t) ==
    /\ cthread[t].pc = "make"
    /\ sync' = [Module EXCEPT !.made = @ + 1, !.metrics_instance = Module.made + 1]
    /\ cthread' = [cthread EXCEPT ![t].pc = "read"]
    /\ UNCHANGED <<mgrvars, embvars, engvars, metrics, system_load, result_cache, now,
                   ncalls>>

\* line 245: return _metrics_instance
MetricsReturn(t) ==
    /\ cthread[t].pc = "read"
    /\ cthread' = [cthread EXCEPT ![t].pc = "done", ![t].key = Module.metrics_instance]
    /\ UNCHANGED <<mgrvars, embvars, engvars, metrics, system_load, result_cache, now,
                   sync, ncalls>>

SingletonNext ==
    \/ \E t \in CacheThreads, op \in Classes \cup {"get_metrics"} : CallGetter(t, op)
    \/ \E t \in CacheThreads : New(t)
    \/ \E t \in CacheThreads : Initialize(t)
    \/ \E t \in CacheThreads : ReturnInstance(t)
    \/ \E t \in CacheThreads : MetricsTest(t)
    \/ \E t \in CacheThreads : MetricsMake(t)
    \/ \E t \in CacheThreads : MetricsReturn(t)

SingletonSpec == Init /\ [][SingletonNext]_vars

-----------------------------------------------------------------------------
(* EmbeddingManager.get_embedding called again for texts the model failed on *)

\* history: the last call of get_embedding that returned; raised holds the texts
\* for which model.encode has raised so far, again tells whether the text of the
\* call was one of them when the call was made
FirstLookup ==
    [state |-> "looked", text |-> "", encode_ok |-> FALSE, value |-> None,
     invoked |-> FALSE, raised |-> {}, again |-> FALSE]

LookedUp == IF sync.state = "looked" THEN sync ELSE FirstLookup

\* get_embedding(text); encode_ok as in get_embedding
RetryLookup(text, encode_ok) ==
    /\ ncalls < MaxLookups
    /\ ncalls' = ncalls + 1
    /\ LET g == get_embedding(text, encode_ok)
       IN /\ embedding_cache' = g.embedding_cache
          /\ lru' = g.lru
          /\ cache_stats' = g.cache_stats
          /\ sync' = [state |-> "looked", text |-> text, encode_ok |-> encode_ok,
                      value |-> g.value, invoked |-> g.invoked,
                      raised |-> LookedUp.raised \cup
                                 (IF g.invoked /\ ~encode_ok THEN {text} ELSE {}),
                      again |-> text \in LookedUp.raised]
    /\ UNCHANGED <<mgrvars, engvars, metrics, system_load, result_cache, now, cthread>>

RetryNext ==
    \/ ModelLoaded
    \/ \E text \in Texts, encode_ok \in BOOLEAN : RetryLookup(text, encode_ok)

RetrySpec == Init /\ [][RetryNext]_vars

-----------------------------------------------------------------------------
(* search/__init__.py: perform_semantic_search(use_async=True), each call of which *)
(* gets its AsyncSearchClient from get_async_search_client                         *)

\* the arguments of the calls of the facade
PerformArgs ==
    {args \in AsyncArgs : args.top_k = 1 /\ args.score_threshold \in {3, -1}}

\* AsyncSearchEngine.__init__ and _start_worker: an empty queue, no result queue,
\* and a worker thread started with running set; pending tells whether the request
\* of the engine has an entry in result_queues, posted is what that queue holds
NewEngine == [running |-> TRUE, query_queue |-> <<>>, pending |-> FALSE, posted |-> None]

\* the engines constructed so far, in the order of their construction
NoEngines == [state |-> "facade", engines |-> <<>>]
Engines == IF sync.state = "facade" THEN sync.engines ELSE NoEngines.engines

\* while self.running (line 72): the worker threads that have not left their loop
LiveWorkers == {e \in 1..Len(Engines) : Engines[e].running}

\* the callers inside perform_semantic_search
InProgress == {t \in CacheThreads : cthread[t].pc = "waiting"}

\* perform_semantic_search(use_async=True) up to the wait for the result:
\* get_async_search_client() constructs a client and with it an engine (lines
\* 239-243 and 373-380 of async_engine.py), then is_available and search_async up to
\* get_search_result
PerformAsync(t, args, nodes) ==
    /\ cthread[t].pc = "idle"
    /\ ncalls < MaxSearches
    /\ ncalls' = ncalls + 1
    /\ IF ~is_available \/ args.query = ""
       THEN /\ sync' = [NoEngines EXCEPT !.engines = Append(Engines, NewEngine)]
            /\ cthread' = [cthread EXCEPT ![t] = [IdleThread EXCEPT !.ret = Some(<<>>)]]
            /\ UNCHANGED metrics
       ELSE /\ sync' = [NoEngines EXCEPT !.engines =
                           Append(Engines,
                                  [NewEngine EXCEPT
                                      !.query_queue =
                                          << [query |-> args.query, nodes |-> nodes,
                                              options |->
                                                 [top_k |-> args.top_k,
                                                  score_threshold |-> args.score_threshold,
                                                  timeout |-> adjusted_timeout(args.timeout)]] >>,
                                      !.pending = TRUE])]
            /\ cthread' = [cthread EXCEPT ![t] =
                             [IdleThread EXCEPT !.pc = "waiting", !.op = "search",
                                                !.key = Len(Engines) + 1]]
            /\ metrics' = record_request(metrics)
    /\ UNCHANGED <<mgrvars, embvars, engvars, system_load, result_cache, now>>

\* what _process_search_request returns for a request, as far as the client reads it
Processed(request, g, n) ==
    IF ~model_ready \/ g.value = None \/ DOMAIN embeddings_dict = {}
    THEN [error |-> TRUE, results |-> <<>>]
    ELSE [error |-> FALSE,
          results |-> scale_scores(limit_results(
                          score_nodes(g.value[1], request.nodes, embeddings_dict,
                                      request.options.score_threshold, n),
                          request.options.top_k))]

\* one pass of the loop of _process_query_queue of engine e that finds a request
\* (lines 72-83); the loop then tests self.running again, which nothing clears
EngineWorker(e) ==
    /\ e \in 1..Len(Engines)
    /\ Engines[e].running
    /\ Engines[e].query_queue # <<>>
    /\ \E encode_ok \in BOOLEAN,
          n \in ScanLengths(embeddings_dict, Head(Engines[e].query_queue).options.timeout) :
         LET request == Head(Engines[e].query_queue)
             g == IF model_ready THEN get_embedding(request.query, encode_ok)
                  ELSE no_embedding
         IN /\ embedding_cache' = g.embedding_cache
            /\ lru' = g.lru
            /\ cache_stats' = g.cache_stats
            /\ sync' = [sync EXCEPT
                          !.engines[e].query_queue = Tail(@),
                          !.engines[e].posted =
                              IF Engines[e].pending THEN Some(Processed(request, g, n))
                              ELSE @]
    /\ UNCHANGED <<mgrvars, engvars, metrics, system_load, result_cache, now, ncalls,
                   cthread>>

\* get_search_result got the item (lines 218-223), and the rest of search_async
PerformGet(t) ==
    /\ cthread[t].pc = "waiting"
    /\ Engines[cthread[t].key].posted # None
    /\ LET result == Engines[cthread[t].key].posted[1]
       IN /\ cthread' = [cthread EXCEPT ![t] = [IdleThread EXCEPT !.ret = Some(result.results)]]
          /\ metrics' = IF result.error THEN record_error(metrics) ELSE metrics
    /\ sync' = [sync EXCEPT !.engines[cthread[t].key].pending = FALSE,
                            !.engines[cthread[t].key].posted = None]
    /\ UNCHANGED <<mgrvars, embvars, engvars, system_load, result_cache, now, ncalls>>

\* get_search_result waited in vain (lines 224-225), and the rest of search_async
PerformTimeout(t) ==
    /\ cthread[t].pc = "waiting"
    /\ Engines[cthread[t].key].posted = None
    /\ cthread' = [cthread EXCEPT ![t] = [IdleThread EXCEPT !.ret = Some(<<>>)]]
    /\ metrics' = record_error(metrics)
    /\ UNCHANGED <<mgrvars, embvars, engvars, system_load, result_cache, now, sync,
                   ncalls>>

PerformAsyncNext ==
    \/ \E t \in CacheThreads, args \in PerformArgs, nodes \in NodeLists :
           PerformAsync(t, args, nodes)
    \/ \E e \in 1..MaxSearches : EngineWorker(e)
    \/ \E t \in CacheThreads : PerformGet(t)
    \/ \E t \in CacheThreads : PerformTimeout(t)
    \/ ModelLoaded
    \/ \E store \in ClientStores : LoadEmbeddings(store)

PerformAsyncSpec == Init /\ [][PerformAsyncNext]_vars

-----------------------------------------------------------------------------
(* Properties of the engine *)

Submitted(rid) == rid < next_id
Queued(rid) == \E i \in 1..Len(query_queue) : query_queue[i][1] = rid
FullLife == <<"QUEUED", "PROCESSING", "POSTED">>
IsPrefix(s, t) == Len(s) <= Len(t) /\ s = SubSeq(t, 1, Len(s))

\* every result dictionary the worker has built and that is still held somewhere
HeldResults ==
    (IF worker.pc = "post" THEN {worker.result} ELSE {})
    \cup UNION {{result_queues[r][i] : i \in 1..Len(result_queues[r])} :
                    r \in DOMAIN result_queues}
    \cup {caller[c].ret : c \in Callers}

\* C1: every request is dequeued at most once, is PROCESSING only after QUEUED, gets at
\* most one outcome posted and only after PROCESSING, and a request id that was never
\* submitted gets no outcome
C1_Lifecycle ==
    /\ \A rid \in RequestIds :
         /\ IsPrefix(reqlog[rid].life, FullLife)
         /\ ~Submitted(rid) => reqlog[rid].life = <<>>
    /\ \A rid \in DOMAIN result_queues :
         /\ Submitted(rid)
         /\ Len(result_queues[rid]) <= 1
         /\ result_queues[rid] # <<>> => reqlog[rid].life = FullLife

C1_Witness ==
    \E rid \in RequestIds : reqlog[rid].life = FullLife /\ rid \in DOMAIN result_queues

\* C2: a caller of get_search_result never waits beyond its timeout; once the timeout
\* has passed the call can return, and with no outcome posted it returns the local
\* timed-out outcome, whether the request is still queued or is being processed
C2_GetReturns ==
    \A c \in Callers :
        caller[c].pc = "waiting" =>
            /\ caller[c].waited <= caller[c].timeout
            /\ caller[c].waited = caller[c].timeout =>
                 /\ ENABLED (GetItem(c) \/ GetTimeout(c))
                 /\ ~HasItem(c) =>
                      ENABLED (GetTimeout(c) /\ caller'[c].pc = "idle"
                                             /\ caller'[c].ret = LocalTimeout)

C2_Witness ==
    \E c \in Callers :
        /\ caller[c].pc = "idle"
        /\ caller[c].ret = LocalTimeout
        /\ Queued(caller[c].rid)
        /\ worker.pc = "scan"

\* C3: the worker outcome a caller gets for a request id was computed from the query,
\* node list and options submitted under that id, and so is every outcome waiting in
\* a result queue
ComputedFrom(result, payload) ==
    /\ result.request = payload
    /\ result.has_stats =>
         /\ result.total_nodes = Len(payload.nodes)
         /\ \A i \in 1..Len(result.results) :
                result.results[i].id \in node_map(payload.nodes)

C3_OwnOutcome ==
    /\ \A c \in Callers :
         caller[c].ret.request # NoPayload =>
             ComputedFrom(caller[c].ret, reqlog[caller[c].rid].payload)
    /\ \A rid \in DOMAIN result_queues :
         \A i \in 1..Len(result_queues[rid]) :
             ComputedFrom(result_queues[rid][i], reqlog[rid].payload)

C3_Witness ==
    \E c \in Callers, other \in DOMAIN result_queues :
        /\ caller[c].ret.request # NoPayload
        /\ caller[c].ret.has_stats
        /\ other # caller[c].rid
        /\ reqlog[other].payload # reqlog[caller[c].rid].payload
        /\ result_queues[other] # <<>>

C6_Fifo ==
    \A a, b \in RequestIds :
        (a < b /\ Len(reqlog[b].life) >= 2) => reqlog[a].life = FullLife

C6_Witness ==
    \E a, b \in RequestIds :
        a < b /\ reqlog[a].life = FullLife /\ Len(reqlog[b].life) >= 2

-----------------------------------------------------------------------------
(* EmbeddingManager.get_embedding called for one text after another *)

\* get_embedding(text) called by any thread; encode_ok as in get_embedding
GetEmbedding(text, encode_ok) ==
    /\ ncalls < MaxLookups
    /\ ncalls' = ncalls + 1
    /\ LET g == get_embedding(text, encode_ok)
       IN /\ embedding_cache' = g.embedding_cache
          /\ lru' = g.lru
          /\ cache_stats' = g.cache_stats
    /\ UNCHANGED <<mgrvars, engvars, metrics, system_load, result_cache, now, sync,
                   cthread>>

EmbNext ==
    \/ ModelLoaded
    \/ \E text \in Texts, encode_ok \in BOOLEAN : GetEmbedding(text, encode_ok)

EmbSpec == Init /\ [][EmbNext]_vars

\* the same callers while the background load of the model may also fail
ModelNext ==
    \/ EmbNext
    \/ ModelLoadFailed

ModelSpec == Init /\ [][ModelNext]_vars

-----------------------------------------------------------------------------
(* EmbeddingManager.get_embedding called by several threads at once: the lookup in *)
(* the shared cache and the store after a miss are two critical sections           *)

\* the texts the threads ask for: two of equal hash and a third
SharedTexts == {"q1", "q5", "q2"}

\* history: what the first call for text that returned a vector returned, None if
\* there was none
FirstVector(text) == IF sync.state = "embedded" THEN sync.first[text] ELSE None

\* history: the last call that returned, and the first vectors
Answered(text, value, invoked) ==
    [state |-> "embedded", text |-> text, value |-> value, invoked |-> invoked,
     first |-> [x \in SharedTexts |->
                   IF x = text /\ FirstVector(x) = None THEN value
                   ELSE FirstVector(x)]]

\* lines 186-195: the readiness check and the lookup under the lock; a hit returns
\* from there, a miss goes on to _cached_get_embedding
Lookup(t, text) ==
    /\ cthread[t].pc = "idle"
    /\ ncalls < MaxLookups
    /\ ncalls' = ncalls + 1
    /\ IF model_ready /\ pyhash(text) \notin DOMAIN embedding_cache
       THEN /\ cthread' = [cthread EXCEPT ![t] = [pc |-> "miss", text |-> text]]
            /\ UNCHANGED <<sync, cache_stats>>
       ELSE /\ sync' = Answered(text, get_embedding(text, TRUE).value, FALSE)
            /\ cache_stats' = get_embedding(text, TRUE).cache_stats
            /\ UNCHANGED cthread
    /\ UNCHANGED <<mgrvars, engvars, embedding_cache, lru, metrics, system_load,
                   result_cache, now>>

\* lines 197-206: _cached_get_embedding, then the store under the lock, and the return
Embed(t, encode_ok) ==
    /\ cthread[t].pc = "miss"
    /\ LET g == embed_and_store(cthread[t].text, encode_ok)
       IN /\ embedding_cache' = g.embedding_cache
          /\ lru' = g.lru
          /\ cache_stats' = g.cache_stats
          /\ sync' = Answered(cthread[t].text, g.value, g.invoked)
    /\ cthread' = [cthread EXCEPT ![t] = [pc |-> "idle", text |-> ""]]
    /\ UNCHANGED <<mgrvars, engvars, metrics, system_load, result_cache, now, ncalls>>

SharedNext ==
    \/ ModelLoaded
    \/ \E t \in CacheThreads, text \in SharedTexts : Lookup(t, text)
    \/ \E t \in CacheThreads, encode_ok \in BOOLEAN : Embed(t, encode_ok)

SharedSpec == Init /\ [][SharedNext]_vars

-----------------------------------------------------------------------------
(* An ExpiringCache that several threads call get, set and clear of *)

CacheKeys == 1..(MaxSize + 1)

CacheInit ==
    /\ InitButCache
    /\ \E max_size \in 1..MaxSize :
          result_cache = ExpiringCache(RESULT_CACHE_EXPIRY, max_size, 0)

\* get(key) and set(key, value) up to the test of _maybe_cleanup (lines 104-105), and
\* clear() up to its lock; clear has no key, and current_time is used only when
\* the cleanup is due
CacheCall(t, op, key) ==
    /\ cthread[t].pc = "idle"
    /\ LET due == op # "clear" /\ CleanupDue(result_cache, now)
       IN cthread' = [cthread EXCEPT ![t] =
                        [pc |-> IF due THEN "cleanup" ELSE "locked",
                         op |-> op,
                         key |-> IF op = "clear" THEN 0 ELSE key,
                         current_time |-> IF due THEN now ELSE 0,
                         ret |-> None]]
    /\ UNCHANGED <<mgrvars, embvars, engvars, metrics, system_load, result_cache, now,
                   sync, ncalls>>

\* _cleanup, under the lock (lines 111-122)
Cleanup(t) ==
    /\ cthread[t].pc = "cleanup"
    /\ result_cache' = cleanup(result_cache, now)
    /\ cthread' = [cthread EXCEPT ![t].pc = "stamp"]
    /\ UNCHANGED <<mgrvars, embvars, engvars, metrics, system_load, now, sync, ncalls>>

\* self.last_cleanup = current_time (line 107), outside the lock
Stamp(t) ==
    /\ cthread[t].pc = "stamp"
    /\ result_cache' = [result_cache EXCEPT !.last_cleanup = cthread[t].current_time]
    /\ cthread' = [cthread EXCEPT ![t].pc = "locked"]
    /\ UNCHANGED <<mgrvars, embvars, engvars, metrics, system_load, now, sync, ncalls>>

\* the part of get, set or clear that runs under the lock; set and clear return
\* nothing, get is left with the value it returns.  The value that set stores is
\* the instant at which it stores it.
Locked(t) ==
    /\ cthread[t].pc = "locked"
    /\ result_cache' =
         CASE cthread[t].op = "get" -> get_locked(result_cache, cthread[t].key, now).cache
           [] cthread[t].op = "set" -> set_locked(result_cache, cthread[t].key, now, now)
           [] OTHER -> [result_cache EXCEPT !.cache = <<>>]
    /\ cthread' = [cthread EXCEPT ![t] =
                     IF cthread[t].op = "get"
                     THEN [IdleThread EXCEPT
                             !.pc = "return", !.op = "get",
                             !.ret = get_locked(result_cache, cthread[t].key, now).value]
                     ELSE IdleThread]
    /\ UNCHANGED <<mgrvars, embvars, engvars, metrics, system_load, now, sync, ncalls>>

\* get returns to its caller
GetReturn(t) ==
    /\ cthread[t].pc = "return"
    /\ cthread' = [cthread EXCEPT ![t] = IdleThread]
    /\ UNCHANGED <<mgrvars, embvars, engvars, metrics, system_load, result_cache, now,
                   sync, ncalls>>

\* the clock moves on, up to MaxClock
ClockTick ==
    /\ now < MaxClock
    /\ now' = now + 1
    /\ UNCHANGED <<mgrvars, embvars, engvars, metrics, system_load, result_cache, sync,
                   ncalls, cthread>>

CacheNext ==
    \/ \E t \in CacheThreads, op \in {"get", "set", "clear"}, key \in CacheKeys :
           CacheCall(t, op, key)
    \/ \E t \in CacheThreads : Cleanup(t)
    \/ \E t \in CacheThreads : Stamp(t)
    \/ \E t \in CacheThreads : Locked(t)
    \/ \E t \in CacheThreads : GetReturn(t)
    \/ ClockTick

CacheSpec == CacheInit /\ [][CacheNext]_vars

-----------------------------------------------------------------------------
(* One ExpiringCache with room for several entries, called by one thread; sync *)
(* holds the last call: the dictionary its locked part found and the one it left *)

EvictKeys == 1..(MaxSize + 2)

EvictInit ==
    /\ InitButCache
    /\ \E expiry_seconds \in {RESULT_CACHE_EXPIRY, MaxClock} :
          result_cache = ExpiringCache(expiry_seconds, MaxSize + 1, 0)

\* the key of the last get that returned a value
LastRead == IF sync.state \in {"get", "set"} THEN sync.last_read ELSE 0

\* ExpiringCache.get(key), lines 57-72
Get(key) ==
    /\ LET swept == maybe_cleanup(result_cache, now)
           got == get_locked(swept, key, now)
       IN /\ result_cache' = got.cache
          /\ sync' = [state |-> "get", key |-> key, at |-> now,
                      before |-> swept.cache, after |-> got.cache.cache,
                      value |-> got.value,
                      last_read |-> IF got.value # None THEN key ELSE LastRead]
    /\ UNCHANGED <<mgrvars, embvars, engvars, metrics, system_load, now, ncalls, cthread>>

\* ExpiringCache.set(key, value), lines 82-91; the value stored is the instant
Set(key) ==
    /\ LET swept == maybe_cleanup(result_cache, now)
           stored == set_locked(swept, key, now, now)
       IN /\ result_cache' = stored
          /\ sync' = [state |-> "set", key |-> key, at |-> now,
                      before |-> swept.cache, after |-> stored.cache,
                      value |-> None, last_read |-> LastRead]
    /\ UNCHANGED <<mgrvars, embvars, engvars, metrics, system_load, now, ncalls, cthread>>

EvictNext ==
    \/ \E key \in EvictKeys : Get(key)
    \/ \E key \in EvictKeys : Set(key)
    \/ ClockTick

EvictSpec == EvictInit /\ [][EvictNext]_vars

-----------------------------------------------------------------------------
(* One SearchClient called again and again while the clock of its cache runs *)

\* a call of SearchClient.search, one of MaxSearches
SyncSearch(args, nodes) ==
    /\ ncalls < MaxSearches
    /\ search(args, nodes)

SyncNext ==
    \/ \E args \in ClientArgs, nodes \in NodeLists : SyncSearch(args, nodes)
    \/ ModelLoaded
    \/ \E store \in ClientStores : LoadEmbeddings(store)
    \/ ClockTick

SyncSpec == Init /\ [][SyncNext]_vars

-----------------------------------------------------------------------------
(* search/__init__.py: perform_semantic_search(use_async=False), each call of which *)
(* gets its SearchClient from get_search_client                                     *)

\* history: the last call of the facade that returned (how and cut as in
\* search_with) and, under prev, the call before it
NoPerformed ==
    [state |-> "performed", args |-> NoArgs, out |-> <<>>, how |-> "none", at |-> 0,
     cut |-> FALSE, store |-> <<>>]

Performed == IF sync.state = "performed" THEN sync ELSE [NoPerformed EXCEPT !.state = "none"]

LastCall == [x \in DOMAIN NoPerformed |-> Performed[x]]

\* perform_semantic_search(query, nodes, top_k, score_threshold, timeout): lines
\* 100-122.  get_search_client() returns SearchClient() (client.py 181-188), whose
\* __init__ makes its own SearchResultCache (38-43); search is called without
\* use_cache, which is True by default.  result_cache is the cache of the client
\* of the last call.
PerformSync(args, nodes) ==
    /\ ncalls < MaxSearches
    /\ ncalls' = ncalls + 1
    /\ IF ~is_available \/ args.query = ""
       THEN /\ sync' = [NoPerformed EXCEPT !.args = args, !.how = "unavailable",
                                           !.at = now, !.store = embeddings_dict]
                          @@ [prev |-> LastCall]
            /\ result_cache' = SearchResultCache(now)
            /\ UNCHANGED <<metrics, embvars>>
       ELSE \E encode_ok \in BOOLEAN,
               n \in ScanLengths(embeddings_dict, args.timeout) :
                LET r == search_with(SearchResultCache(now), args, nodes, encode_ok, n)
                IN /\ sync' = [NoPerformed EXCEPT !.args = args, !.out = r.out,
                                                  !.how = r.how, !.at = now,
                                                  !.cut = r.cut,
                                                  !.store = embeddings_dict]
                                 @@ [prev |-> LastCall]
                   /\ metrics' = r.metrics
                   /\ result_cache' = r.result_cache
                   /\ embedding_cache' = r.embedding_cache
                   /\ lru' = r.lru
                   /\ cache_stats' = r.cache_stats
    /\ UNCHANGED <<mgrvars, engvars, system_load, now, cthread>>

PerformNext ==
    \/ \E args \in PerformArgs, nodes \in NodeLists : PerformSync(args, nodes)
    \/ ModelLoaded
    \/ \E store \in ClientStores : LoadEmbeddings(store)
    \/ ClockTick

PerformSpec == Init /\ [][PerformNext]_vars

-----------------------------------------------------------------------------
(* search_core/scoring.py: SearchScorer on its own, over a loaded store *)

NodeIds == {1, 2, 3}

\* the vectors of the store, as angles
FieldAngles == {0, 1, 3}

FieldNames == <<"label_text", "description_text", "content_text">>

\* the embedded fields of a node in the order of the file
FieldLists ==
    UNION { { [i \in 1..n |-> <<FieldNames[i], a[i]>>] : a \in [1..n -> FieldAngles] } :
            n \in 0..MaxFields }

ScoreStores == UNION { [S -> FieldLists] : S \in SUBSET NodeIds }

\* the calls of the scorer: candidate lists with a node the store may not hold, a
\* threshold at either end of [0, 1] and in the middle, top_k zero and positive
ScoreArgs ==
    [query_embedding : {0, 1}, nodes : {<<1, 2, 3>>, <<3, 1>>, <<2, 4>>},
     score_threshold : {0, 5, 10}, top_k : {0, 2}]

ScoreInit ==
    /\ InitButStore
    /\ embeddings_dict \in ScoreStores
    /\ metadata = "loaded"
    /\ result_cache = SearchResultCache(0)

\* score_nodes, whose loop ends after n iterations, then limit_results on its list
Score(args, n) ==
    /\ sync.state = "none"
    /\ LET ranked == score_nodes(args.query_embedding, args.nodes, embeddings_dict,
                                 args.score_threshold, n)
       IN sync' = [state |-> "scored", args |-> args, ranked |-> ranked,
                   out |-> limit_results(ranked, args.top_k),
                   cut |-> n < Cardinality(DOMAIN embeddings_dict)]
    /\ UNCHANGED <<mgrvars, embvars, engvars, metrics, system_load, result_cache, now,
                   ncalls, cthread>>

ScoreNext ==
    \E args \in ScoreArgs, n \in 0..Cardinality(DOMAIN embeddings_dict) : Score(args, n)

ScoreSpec == ScoreInit /\ [][ScoreNext]_vars

-----------------------------------------------------------------------------
(* SearchScorer.score_nodes over stores with vectors that np.dot fails on and *)
(* candidate lists with an entry that has no "id" key                         *)

\* a candidate entry without the key "id"
NoId == 0

BadFieldLists ==
    UNION { { [i \in 1..n |-> <<FieldNames[i], a[i]>>] :
                a \in [1..n -> FieldAngles \cup {BadVector}] } :
            n \in 1..(MaxFields + 1) }

BadStores == [{1, 2} -> BadFieldLists]

BadArgs ==
    [query_embedding : {0}, nodes : {<<1, 2>>, <<NoId, 1, 2>>, <<2, NoId>>},
     score_threshold : {5, 10}]

BadInit ==
    /\ InitButStore
    /\ embeddings_dict \in BadStores
    /\ metadata = "loaded"
    /\ result_cache = SearchResultCache(0)

\* line 80: node["id"] raises KeyError for an entry without the key, and nothing
\* in score_nodes catches it
node_map_raises(nodes) == \E i \in 1..Len(nodes) : nodes[i] = NoId

\* score_nodes(query_embedding, nodes, node_embeddings, score_threshold) with no
\* timeout: the list returned, or the exception that leaves the method
ScoreAll(args) ==
    /\ sync.state = "none"
    /\ sync' = IF node_map_raises(args.nodes)
               THEN [state |-> "scored", args |-> args, raised |-> TRUE, out |-> <<>>]
               ELSE [state |-> "scored", args |-> args, raised |-> FALSE,
                     out |-> score_nodes(args.query_embedding, args.nodes,
                                         embeddings_dict, args.score_threshold,
                                         Cardinality(DOMAIN embeddings_dict))]
    /\ UNCHANGED <<mgrvars, embvars, engvars, metrics, system_load, result_cache, now,
                   ncalls, cthread>>

BadNext == \E args \in BadArgs : ScoreAll(args)

BadSpec == BadInit /\ [][BadNext]_vars

-----------------------------------------------------------------------------
(* search_core/embeddings.py: EmbeddingManager.load_embeddings and the files it reads *)

\* self.metadata = {} (line 50): no dimension is recorded
NoMetadata == [dimensions |-> 0]

\* the "metadata" object of a file
FileMetadata == [dimensions : 1..MaxDim]

\* a JSON value found where a vector is expected: its items, by their number, and
\* whether all of them are numbers.  A vector is given by its components here.
RawVectors ==
    [items : { [i \in 1..n |-> IF i = 1 THEN 1 ELSE 0] : n \in 1..MaxDim },
     numeric : BOOLEAN]

\* the "embeddings" object of a file: node ids to fields to values
FileEmbeddings ==
    UNION { [S -> { << <<"label_text", v>> >> : v \in RawVectors }] :
            S \in {{1}, {1, 2}} }

\* what load_embeddings finds at file_path: no file, or a JSON object with or without
\* its two top-level keys
Files ==
    { [exists |-> FALSE, has_embeddings |-> FALSE, has_metadata |-> FALSE,
       embeddings |-> <<>>, metadata |-> NoMetadata] }
    \cup { [exists |-> TRUE, has_embeddings |-> TRUE, has_metadata |-> TRUE,
            embeddings |-> e, metadata |-> m] : e \in FileEmbeddings, m \in FileMetadata }
    \cup { [exists |-> TRUE, has_embeddings |-> TRUE, has_metadata |-> FALSE,
            embeddings |-> e, metadata |-> NoMetadata] : e \in FileEmbeddings }
    \cup { [exists |-> TRUE, has_embeddings |-> FALSE, has_metadata |-> TRUE,
            embeddings |-> <<>>, metadata |-> m] : m \in FileMetadata }

\* np.array(embedding, dtype=np.float32): the components as floats, or an exception
\* (None) if an item is not a number
np_array(embedding) == IF embedding.numeric THEN Some(embedding.items) ELSE None

\* lines 94-105: the dictionary built from data["embeddings"], or None if a conversion
\* raised
converted(embeddings) ==
    IF \E id \in DOMAIN embeddings : \E i \in 1..Len(embeddings[id]) :
           np_array(embeddings[id][i][2]) = None
    THEN None
    ELSE Some([id \in DOMAIN embeddings |->
                  [i \in 1..Len(embeddings[id]) |->
                      <<embeddings[id][i][1], np_array(embeddings[id][i][2])[1]>>]])

\* EmbeddingManager.load_embeddings(file_path): the value returned and the two
\* attributes after the call
load_result(file) ==
    LET same == [out |-> FALSE, embeddings_dict |-> embeddings_dict,
                 metadata |-> metadata]
    IN IF ~file.exists THEN same
       ELSE IF ~file.has_embeddings \/ ~file.has_metadata THEN same
       ELSE IF converted(file.embeddings) = None
       THEN [same EXCEPT !.metadata = file.metadata]
       ELSE [out |-> TRUE, embeddings_dict |-> converted(file.embeddings)[1],
             metadata |-> file.metadata]

load_embeddings(file) ==
    /\ embeddings_dict' = load_result(file).embeddings_dict
    /\ metadata' = load_result(file).metadata
    /\ sync' = [state |-> "loaded", file |-> file, out |-> load_result(file).out]
    /\ UNCHANGED <<model_ready, loader, embvars, engvars, metrics, system_load,
                   result_cache, now, ncalls, cthread>>

LoadInit ==
    /\ InitButStore
    /\ embeddings_dict = <<>>
    /\ metadata = NoMetadata
    /\ result_cache = SearchResultCache(0)

LoadNext == \E file \in Files : load_embeddings(file)

LoadSpec == LoadInit /\ [][LoadNext]_vars

-----------------------------------------------------------------------------
(* Properties of the client facades *)

\* the lists that the calls of the facades have returned so far
ReturnedLists ==
    (IF sync.state = "returned" THEN {sync.out} ELSE {})
    \cup {caller[c].out : c \in {d \in Callers : /\ caller[d].api = "async"
                                                  /\ caller[d].pc = "idle"}}

InvalidParameters(top_k, score_threshold) ==
    top_k < 0 \/ score_threshold < 0 \/ score_threshold > 10

\* C8 (as claimed): a call with a negative top_k or a score_threshold outside [0, 1]
\* is rejected before any work: no such request is ever enqueued, no result is cached
\* under such parameters, and no such call returns a list of results
C8_InvalidParametersRejected ==
    /\ \A rid \in RequestIds :
          Submitted(rid) =>
              ~InvalidParameters(reqlog[rid].payload.options.top_k,
                                 reqlog[rid].payload.options.score_threshold)
    /\ \A key \in cache_keys(result_cache) : ~InvalidParameters(key[3], key[2])
    /\ (sync.state = "returned"
          /\ InvalidParameters(sync.args.top_k, sync.args.score_threshold))
            => sync.out = <<>>

-----------------------------------------------------------------------------
(* Properties of the caches *)

\* C9 (as claimed): the embedding cache of the EmbeddingManager never holds more than
\* EMBEDDING_CACHE_SIZE entries
C9_EmbeddingCacheBounded ==
    Cardinality(DOMAIN embedding_cache) <= EMBEDDING_CACHE_SIZE

\* C10: whatever the interleaving of the get, set and clear calls of the threads, an
\* ExpiringCache with max_size >= 1 holds at most max_size entries
C10_CacheBounded ==
    result_cache.max_size >= 1 => Len(result_cache.cache) <= result_cache.max_size

\* the cache is full and two threads are past _maybe_cleanup in set, both about to
\* store a key that the cache does not hold
C10_Witness ==
    /\ Len(result_cache.cache) = result_cache.max_size
    /\ \E t, u \in CacheThreads :
          /\ t # u
          /\ cthread[t].pc = "locked" /\ cthread[t].op = "set"
          /\ cthread[u].pc = "locked" /\ cthread[u].op = "set"
          /\ {cthread[t].key, cthread[u].key} \cap cache_keys(result_cache) = {}

\* C11: a get that finds an entry stored more than expiry_seconds ago returns None
\* and leaves the cache without an entry of that key, whether or not a cleanup has
\* run since; so every value that get returns was stored at most expiry_seconds ago
C11_GetNeverStale ==
    [][\A t \in CacheThreads :
          (cthread[t].pc = "locked" /\ cthread[t].op = "get"
             /\ cthread'[t].pc = "return") =>
              /\ cthread'[t].ret # None =>
                    now - cthread'[t].ret[1] <= result_cache.expiry_seconds
              /\ (\E i \in 1..Len(result_cache.cache) :
                     /\ result_cache.cache[i].key = cthread[t].key
                     /\ now - result_cache.cache[i].timestamp >
                            result_cache.expiry_seconds)
                    => /\ cthread'[t].ret = None
                       /\ cthread[t].key \notin cache_keys(result_cache')]_vars

\* a get is about to look up a key whose entry has expired and is still in the cache
C11_Witness ==
    \E t \in CacheThreads, i \in 1..Len(result_cache.cache) :
        /\ cthread[t].pc = "locked" /\ cthread[t].op = "get"
        /\ result_cache.cache[i].key = cthread[t].key
        /\ now - result_cache.cache[i].timestamp > result_cache.expiry_seconds

\* C12: when a search of a client computed its result and the next search of that
\* client has the same query, top_k and score_threshold, whatever its timeout, and is
\* made at most the expiry of the result cache later (both with the cache in use),
\* the next search is a cache hit: it returns the stored list and runs neither the
\* embedding lookup nor the scorer
C12_SecondSearchHits ==
    [][(/\ ncalls' = ncalls + 1
        /\ sync.how = "computed"
        /\ sync.args.use_cache /\ sync'.args.use_cache
        /\ sync'.args.query = sync.args.query
        /\ sync'.args.top_k = sync.args.top_k
        /\ sync'.args.score_threshold = sync.args.score_threshold
        /\ now - sync.at <= result_cache.expiry_seconds)
          => /\ sync'.how = "hit"
             /\ sync'.out = sync.out
             /\ UNCHANGED embvars]_vars

\* a second search returned a stored non-empty list some time after it was stored
C12_Witness ==
    /\ ncalls = 2
    /\ sync.how = "hit"
    /\ sync.out # <<>>
    /\ \E i \in 1..Len(result_cache.cache) :
          /\ result_cache.cache[i].key = create_cache_key(sync.args.query, sync.args)
          /\ result_cache.cache[i].timestamp < sync.at

\* the entry of the result cache under the key of a call, if there is one, has not
\* expired
NotExpired(args) ==
    \A i \in 1..Len(result_cache.cache) :
        result_cache.cache[i].key = create_cache_key(args.query, args)
            => Fresh(result_cache, result_cache.cache[i].timestamp, now)

Similarities(query_embedding, field_embeddings) ==
    { cosine_similarity(query_embedding, field_embeddings[i][2]) :
        i \in 1..Len(field_embeddings) }

\* the node has a field vector and its greatest similarity is at least the threshold
MaxAtLeast(query_embedding, field_embeddings, score_threshold) ==
    \E m \in Similarities(query_embedding, field_embeddings) :
        /\ \A x \in Similarities(query_embedding, field_embeddings) : x <= m
        /\ m >= score_threshold

\* C14: a scorer that ran to completion has a result for a node exactly when the
\* node is in the candidate list and in the store and the greatest similarity of its
\* field vectors is at least the threshold; the score of the result is that greatest
\* similarity and its field is a field of the node that has it
C14_EmitsExactlyAtThreshold ==
    (sync.state = "scored" /\ ~sync.cut) =>
        LET q == sync.args.query_embedding
            emitted == {sync.ranked[i].id : i \in 1..Len(sync.ranked)}
        IN /\ \A id \in NodeIds \cup {4} :
                  id \in emitted <=>
                      /\ id \in node_map(sync.args.nodes)
                      /\ id \in DOMAIN embeddings_dict
                      /\ MaxAtLeast(q, embeddings_dict[id], sync.args.score_threshold)
           /\ \A i \in 1..Len(sync.ranked) :
                  LET r == sync.ranked[i]
                      fields == embeddings_dict[r.id]
                  IN /\ \A x \in Similarities(q, fields) : x <= r.score
                     /\ \E j \in 1..Len(fields) :
                            /\ fields[j][1] = r.field
                            /\ cosine_similarity(q, fields[j][2]) = r.score

\* the scores of a list do not increase and equal scores come by ascending node id
Ranked(results) ==
    \A i, j \in 1..Len(results) :
        i < j => \/ results[i].score > results[j].score
                 \/ /\ results[i].score = results[j].score
                    /\ results[i].id < results[j].id

\* C15: the list score_nodes returns, whether or not its loop ran to the end, and the
\* list cut from it by limit_results are in non-increasing order of score, and two
\* results of equal score are in ascending order of node id
C15_RankedByScoreThenId ==
    sync.state = "scored" => Ranked(sync.ranked) /\ Ranked(sync.out)

\* three results of which two tie, the third scores less, and a node of a higher id
\* comes before a node of a lower id
C15_Witness ==
    /\ sync.state = "scored"
    /\ Len(sync.ranked) = 3
    /\ \E i, j \in 1..3 : i < j /\ sync.ranked[i].score = sync.ranked[j].score
    /\ \E i, j \in 1..3 : /\ i < j
                           /\ sync.ranked[i].score > sync.ranked[j].score
                           /\ sync.ranked[i].id > sync.ranked[j].id

\* C16: with top_k > 0 limit_results returns the first top_k entries of the ranked
\* list in their order, the whole list if it is shorter, so at most top_k entries;
\* with top_k = 0 it returns the whole list
C16_LimitResults ==
    sync.state = "scored" =>
        /\ sync.args.top_k > 0 =>
              /\ Len(sync.out) = Min(sync.args.top_k, Len(sync.ranked))
              /\ Len(sync.out) <= sync.args.top_k
              /\ sync.out = SubSeq(sync.ranked, 1, Len(sync.out))
        /\ sync.args.top_k = 0 => sync.out = sync.ranked

\* a ranked list of three results was cut to its first two
C16_Witness ==
    /\ sync.state = "scored"
    /\ sync.args.top_k = 2
    /\ Len(sync.ranked) = 3
    /\ sync.out = <<sync.ranked[1], sync.ranked[2]>>

\* some vector of the file has not the number of components its metadata record
Mismatched(file) ==
    \E id \in DOMAIN file.embeddings : \E i \in 1..Len(file.embeddings[id]) :
        Len(file.embeddings[id][i][2].items) # file.metadata.dimensions

\* C17: load_embeddings returns False and leaves the store alone when a vector of
\* the file has a length other than metadata.dimensions, and after a load that
\* returned True every stored vector has the length the metadata record
C17_DimensionChecked ==
    [][sync'.state = "loaded" =>
          /\ (/\ sync'.file.has_embeddings /\ sync'.file.has_metadata
              /\ Mismatched(sync'.file))
                => /\ ~sync'.out
                   /\ embeddings_dict' = embeddings_dict
          /\ sync'.out =>
                \A id \in DOMAIN embeddings_dict' :
                    \A i \in 1..Len(embeddings_dict'[id]) :
                        Len(embeddings_dict'[id][i][2]) = metadata'.dimensions]_vars

\* C18: a load_embeddings that returns False leaves embeddings_dict and metadata as
\* they were, and after one that returns True both are those of the file it read
C18_WholeOrNothing ==
    [][sync'.state = "loaded" =>
          /\ ~sync'.out => embeddings_dict' = embeddings_dict /\ metadata' = metadata
          /\ sync'.out => /\ metadata' = sync'.file.metadata
                          /\ Some(embeddings_dict') =
                                 converted(sync'.file.embeddings)]_vars

\* C19: is_model_ready() changes only from false to true, and only in the step in
\* which the background load ends well; once the load has raised, is_model_ready()
\* stays false and no load is running or started again
C19_ReadyOnceAfterLoad ==
    [][/\ model_ready' # model_ready =>
              /\ ~model_ready /\ model_ready'
              /\ loader = "loading" /\ loader' = "ready"
       /\ loader = "failed" => loader' = "failed" /\ ~model_ready'
       /\ loader' = "loading" => loader = "loading"]_vars

\* the load has raised and every lookup made since came back without an embedding
C19_Witness ==
    /\ loader = "failed"
    /\ ~model_ready
    /\ ncalls = MaxLookups
    /\ cache_stats.misses = 0

\* C20: when search_async is called with a timeout T while the system load is at
\* least the 'high' threshold, the timeout in the options of the request it queues
\* is 0.7 * T
C20_TimeoutCutAtHighLoad ==
    [][\A c \in Callers :
          (/\ caller[c].pc = "idle" /\ caller'[c].pc = "waiting"
           /\ caller'[c].api = "async"
           /\ caller'[c].args.timeout # 0
           /\ system_load >= HighLoad)
             => reqlog'[caller'[c].rid].payload.options.timeout =
                    (caller'[c].args.timeout * 7) \div 10]_vars

\* C21: whatever the system load, a search_async called with the model ready and a
\* non-empty query puts exactly one request, its own, at the end of the queue and
\* waits for its result; the load changes nothing but the timeout of the request
C21_LoadNeverRejects ==
    [][\A c \in Callers :
          (/\ caller[c].pc = "idle" /\ ncalls' = ncalls + 1
           /\ caller'[c].api = "async"
           /\ caller'[c].args.query # ""
           /\ model_ready)
             => /\ caller'[c].pc = "waiting"
                /\ Len(query_queue') = Len(query_queue) + 1
                /\ SubSeq(query_queue', 1, Len(query_queue)) = query_queue
                /\ LET queued == query_queue'[Len(query_queue')]
                   IN /\ queued[1] = caller'[c].rid
                      /\ queued[2].query = caller'[c].args.query
                      /\ queued[2].options.top_k = caller'[c].args.top_k
                      /\ queued[2].options.score_threshold =
                             caller'[c].args.score_threshold
                      /\ queued[2].options.timeout
                             \in {caller'[c].args.timeout,
                                  (caller'[c].args.timeout * 7) \div 10}
                /\ caller'[c].rid \in DOMAIN result_queues']_vars

\* a request was queued, with its timeout cut, while the load was above the threshold
C21_Witness ==
    /\ system_load > HighLoad
    /\ \E c \in Callers :
          /\ caller[c].pc = "waiting" /\ caller[c].api = "async"
          /\ caller[c].args.timeout # 0
          /\ \E i \in 1..Len(query_queue) :
                /\ query_queue[i][1] = caller[c].rid
                /\ query_queue[i][2].options.timeout < caller[c].args.timeout

\* C22: get_embedding(text) returns None or the vector the model produces for that
\* very text, never the vector of another text, whatever the hashes of the texts
C22_KeyedByExactText ==
    sync.state = "embedded" =>
        sync.value = None \/ sync.value = Some(encode(sync.text))

\* a step in which a thread calls get_embedding(text)
CallsFor(text) ==
    /\ ncalls' = ncalls + 1
    /\ \/ \E t \in CacheThreads : /\ cthread[t].pc = "idle"
                                  /\ cthread'[t].pc = "miss"
                                  /\ cthread'[t].text = text
       \/ cthread' = cthread /\ sync'.text = text

\* C29: once a call of get_embedding(text) has returned a vector, every call for that
\* text made later with the model ready returns that vector without invoking the
\* model, and adds one to the hits and nothing to the misses; a call that invokes
\* the model and gets a vector adds one to the misses and nothing to the hits
C29_HitsAndMisses ==
    [][/\ \A text \in SharedTexts :
              (CallsFor(text) /\ model_ready /\ FirstVector(text) # None)
                 => /\ cthread' = cthread
                    /\ sync'.value = FirstVector(text)
                    /\ ~sync'.invoked /\ lru' = lru
                    /\ cache_stats' = [cache_stats EXCEPT !.hits = @ + 1]
       /\ \A t \in CacheThreads :
              (/\ cthread[t].pc = "miss" /\ cthread'[t].pc = "idle"
               /\ sync'.invoked /\ sync'.value # None)
                 => cache_stats' = [cache_stats EXCEPT !.misses = @ + 1]]_vars

\* C23: when the scan of a request of search_async was stopped by the timeout of the
\* request, the caller is still waiting when the worker is about to post the partial
\* results, and what the caller returns is the list of those results
C23_PartialResultsReachCaller ==
    \A c \in Callers :
        (caller[c].api = "async" /\ caller[c].rid # 0) =>
            /\ (/\ worker.pc = "post" /\ worker.rid = caller[c].rid
                /\ worker.result.scan = "broke")
                  => caller[c].pc = "waiting"
            /\ (caller[c].pc = "idle" /\ caller[c].ret.scan = "broke")
                  => caller[c].out = caller[c].ret.results

\* the caller of the request has got the local timeout of get_search_result
Abandoned(rid) ==
    \E c \in Callers : /\ caller[c].pc = "idle" /\ caller[c].rid = rid
                        /\ caller[c].ret = LocalTimeout

\* what one step may do to the queue and the worker
C24_WorkerStep ==
    /\ (\E c \in Callers : caller[c].pc = "waiting" /\ caller'[c].pc = "idle"
                            /\ caller'[c].ret = LocalTimeout)
          => UNCHANGED <<query_queue, worker, result_queues>>
    /\ (query_queue' # query_queue /\ Len(query_queue') <= Len(query_queue))
          => /\ worker.pc = "idle"
             /\ query_queue' = Tail(query_queue)
             /\ worker'.rid = Head(query_queue)[1]
    /\ (worker.pc = "scan" /\ worker'.pc = "post" /\ worker.idx <= Len(worker.keys))
          => Expired(worker.request.options.timeout, worker.scan_elapsed)

\* the worker's next step is possible whoever waits for the request
C24_WorkerNeverBlocked ==
    /\ (worker.pc = "idle" /\ query_queue # <<>>) => ENABLED Dequeue
    /\ (worker.pc = "embedding") => ENABLED GenerateEmbedding
    /\ (worker.pc = "scan") => (ENABLED ScoreNode \/ ENABLED FinishSearch)
    /\ (worker.pc = "post") => ENABLED PostResult

\* C24: a caller that stops waiting changes neither the queue nor the worker; the
\* worker takes a request off the queue only when it is idle, that is after it has
\* posted for the request before; the scan of a request, abandoned or not, ends
\* before the last node only on the request's own timeout; and an abandoned request
\* never blocks the worker: it can be dequeued, scanned and finished like any other
C24_AbandonedStillProcessed == [][C24_WorkerStep]_vars /\ []C24_WorkerNeverBlocked

\* the worker has scanned the whole store for a request whose caller gave up
C24_Witness ==
    /\ worker.pc = "post"
    /\ worker.result.scan = "full"
    /\ worker.result.results # <<>>
    /\ Abandoned(worker.rid)

\* request rid waits in the queue of the worker
InQueue(rid) == \E i \in 1..Len(query_queue) : query_queue[i][1] = rid

\* the worker has put the outcome of request rid in its result queue
Posted(rid) == \E i \in 1..Len(reqlog[rid].life) : reqlog[rid].life[i] = "POSTED"

\* an outcome with the "error" key has an empty result list and no statistics, and
\* every outcome lies in the result queue of the request it was computed from
C25_ErrorOutcomes ==
    /\ \A rid \in DOMAIN result_queues :
          \A i \in 1..Len(result_queues[rid]) :
             /\ result_queues[rid][i].request = reqlog[rid].payload
             /\ result_queues[rid][i].error # ""
                  => /\ result_queues[rid][i].results = <<>>
                     /\ ~result_queues[rid][i].has_stats

\* a request that fails before the scan gets an error outcome
C25_FailureStep ==
    /\ (worker.pc = "idle" /\ worker'.pc # "idle" /\ ~model_ready)
          => worker'.pc = "post" /\ worker'.result.error = "Model not ready"
    /\ (worker.pc = "embedding" /\ worker'.pc # "embedding"
           /\ (cache_stats' = cache_stats \/ DOMAIN embeddings_dict = {}))
          => /\ worker'.pc = "post"
             /\ worker'.result.error # ""
             /\ worker'.result.results = <<>>
    /\ (worker.pc = "post" /\ worker'.pc # "post")
          => /\ worker'.pc = "idle"
             /\ \A rid \in DOMAIN result_queues \ {worker.rid} :
                   result_queues'[rid] = result_queues[rid]

\* C25: every failure of one request (model not ready, no query embedding, empty
\* store, an exception while scoring) is posted as an error outcome with an empty
\* result list, to the result queue of that request and no other; the worker goes
\* on, and every request on the queue is eventually processed and posted
C25_FailuresReportedWorkerGoesOn ==
    /\ []C25_ErrorOutcomes
    /\ [][C25_FailureStep]_vars
    /\ \A rid \in RequestIds : (InQueue(rid) \/ worker.rid = rid) ~> Posted(rid)

\* the first request failed while scoring, and the one enqueued after it was
\* scanned and posted with its results
C25_Witness ==
    /\ {1, 2} \subseteq DOMAIN result_queues
    /\ reqlog[1].life = <<"QUEUED", "PROCESSING", "POSTED">>
    /\ Len(result_queues[1]) = 1
    /\ result_queues[1][1].error = "exception"
    /\ Len(result_queues[2]) = 1
    /\ result_queues[2][1].error = ""
    /\ result_queues[2][1].results # <<>>

\* what a scan of the whole of one file gives for the request of the worker
ScanOf(file) ==
    scale_scores(limit_results(
        score_nodes(worker.query_embedding[1], worker.request.nodes, file,
                    worker.request.options.score_threshold, Cardinality(DOMAIN file)),
        worker.request.options.top_k))

\* C26: the dictionary a scan works on is one of the files, whole, it stays the same
\* from the first node to the last whatever load_embeddings does meanwhile, and the
\* results posted are those of a scan of that one file
C26_ScanSeesOneLoad ==
    /\ [](/\ worker.pc = "scan" => worker.node_embeddings \in StoreFiles
          /\ (worker.pc = "post" /\ worker.result.scan = "full")
                => /\ worker.node_embeddings \in StoreFiles
                   /\ worker.result.results = ScanOf(worker.node_embeddings))
    /\ [][(worker.pc = "scan" /\ worker'.pc \in {"scan", "post"})
            => worker'.node_embeddings = worker.node_embeddings]_vars

\* a load has replaced the store after the scan has scored its first node
C26_Witness ==
    /\ worker.pc = "scan"
    /\ worker.idx = 2
    /\ embeddings_dict \in StoreFiles \ {worker.node_embeddings}
    /\ sync.state = "converting"
    /\ sync.local # <<>>

\* thread t runs _cleanup in this step
Sweeps(t) == cthread[t].pc = "cleanup" /\ cthread'[t].pc = "stamp"

\* C27: when a thread runs the sweep, more than a third of expiry_seconds has passed
\* since any other thread that has swept and not yet written last_cleanup read the
\* clock before its own sweep, so that the two sweeps are that far apart
C27_SweepsApart ==
    [][\A t \in CacheThreads :
          Sweeps(t) =>
             \A u \in CacheThreads \ {t} :
                cthread[u].pc = "stamp"
                   => 3 * (now - cthread[u].current_time) > result_cache.expiry_seconds]_vars

\* the entries of a dictionary, as a set
Entries(d) == {d[i] : i \in 1..Len(d)}

\* the last call was a set of a key that was absent from a full dictionary
SetIntoFull ==
    /\ sync.state = "set"
    /\ Len(sync.before) >= result_cache.max_size
    /\ \A e \in Entries(sync.before) : e.key # sync.key

\* the entries that the last call removed
Evicted == Entries(sync.before) \ Entries(sync.after)

\* C28: a set of a new key into a full cache removes exactly one entry, one of the
\* least timestamp, and adds the new one; a get leaves the timestamp of every entry
\* as it was, and a get that returns a value leaves the whole dictionary as it was
C28_OldestEvicted ==
    /\ SetIntoFull =>
          /\ Cardinality(Evicted) = 1
          /\ \A v \in Evicted : \A e \in Entries(sync.before) : v.timestamp <= e.timestamp
          /\ Entries(sync.after) \ Entries(sync.before) =
                 {[key |-> sync.key, value |-> sync.at, timestamp |-> sync.at]}
          /\ Len(sync.after) = Len(sync.before)
    /\ sync.state = "get" =>
          /\ Entries(sync.after) \subseteq Entries(sync.before)
          /\ sync.value # None => sync.after = sync.before

\* the entry evicted is the one that was read last, and a younger entry is kept
C28_Witness ==
    /\ SetIntoFull
    /\ \E v \in Evicted :
          /\ v.key = LastRead
          /\ \E e \in Entries(sync.after) : v.timestamp < e.timestamp /\ e.key # sync.key

\* C30: at most one loop of the monitor is past its test of the running flag, about
\* to write the load or asleep after writing it
C30_OneSampler ==
    Cardinality({t \in CacheThreads : cthread[t].pc \in {"sample", "sleep"}}) <= 1

\* the factor, in tenths, and the batch size that the load of the last call calls for
C31_Factor == IF sync.load >= 8 THEN 7 ELSE IF sync.load >= 6 THEN 9 ELSE 10
C31_Batch == IF sync.load >= 8 THEN 200 ELSE IF sync.load >= 6 THEN 500 ELSE 1000

\* C31: the dictionary returned has the timeout given times 0.7 at a load of 0.8 or
\* more, times 0.9 from 0.6 up to 0.8 and times 1.0 below, no timeout when none was
\* given, the batch size 200, 500 or 1000, and the other parameters as given; the
\* dictionary the caller passed is as it was
C31_OptimizedByLoadLevel ==
    sync.state = "optimized" =>
        /\ sync.given.timeout = None => sync.out.timeout = None
        /\ sync.given.timeout # None
              => sync.out.timeout = Some(sync.given.timeout[1] * C31_Factor)
        /\ sync.out.batch_size = Some(C31_Batch)
        /\ sync.out.top_k = sync.given.top_k
        /\ sync.base_params = sync.given

\* a call at a load of exactly 0.8 with a timeout and a batch size given
C31_Witness ==
    /\ sync.state = "optimized"
    /\ sync.load = HighLoad
    /\ sync.given.timeout = Some(Tenths(3))
    /\ sync.out.timeout = Some(210)
    /\ sync.given.batch_size = Some(50)

\* the last Window samples of a history, and the share of TRUE among them in percent
Recent(history) ==
    SubSeq(history, IF Len(history) > Window THEN Len(history) - Window + 1 ELSE 1,
           Len(history))

ShareOf(history) ==
    IF history = <<>> THEN 0
    ELSE (Cardinality({i \in 1..Len(history) : history[i]}) * 100) \div Len(history)

\* the two lists of times hold the last Window times recorded, oldest first
C32_TimesWindowed ==
    /\ Len(PM.search_times) <= Window
    /\ Len(PM.embedding_times) <= Window
    /\ \A i \in 1..Len(PM.search_times) :
          PM.search_times[i] = PM.n_search - Len(PM.search_times) + i
    /\ \A i \in 1..Len(PM.embedding_times) :
          PM.embedding_times[i] = PM.n_embedding - Len(PM.embedding_times) + i

\* C32: the two lists of times never hold more than Window entries, the oldest being
\* dropped first, and the cache hit rate and the error rate of the summary are those
\* of the last Window cache events and of the last Window requests
C32_SummaryFromRecentSamples ==
    /\ C32_TimesWindowed
    /\ get_summary.cache_hit_rate = ShareOf(Recent(PM.events))
    /\ get_summary.error_rate = ShareOf(Recent(PM.outcomes))

\* the well-formed candidates of the last call that the store holds and one of
\* whose sound field vectors is similar enough to the query
Eligible ==
    {id \in DOMAIN embeddings_dict :
        /\ \E i \in 1..Len(sync.args.nodes) : sync.args.nodes[i] = id
        /\ \E i \in 1..Len(embeddings_dict[id]) :
              /\ embeddings_dict[id][i][2] # BadVector
              /\ Cos6[((sync.args.query_embedding - embeddings_dict[id][i][2] + 6) % 6) + 1]
                    >= sync.args.score_threshold}

\* the last call went over a field vector that np.dot fails on
C33_BadVectorSeen ==
    /\ sync.state = "scored"
    /\ \E id \in DOMAIN embeddings_dict : \E i \in 1..Len(embeddings_dict[id]) :
          embeddings_dict[id][i][2] = BadVector

\* the part of C33 about vectors: a field vector on which the similarity fails
\* counts as similarity 0 and the scan goes on
C33_BadVectorSkipped ==
    (C33_BadVectorSeen /\ ~sync.raised) =>
        {sync.out[i].id : i \in 1..Len(sync.out)} = Eligible

\* C33: whatever vector np.dot fails on and whatever candidate entry lacks an id,
\* score_nodes returns, and what it returns holds every eligible node
C33_BadNodeSkipped ==
    sync.state = "scored" =>
        /\ ~sync.raised
        /\ Eligible \subseteq {sync.out[i].id : i \in 1..Len(sync.out)}

C40_OneMetrics ==
    /\ Module.made <= 1
    /\ \A t, u \in CacheThreads :
          (/\ cthread[t].pc = "done" /\ cthread[t].op = "get_metrics"
           /\ cthread[u].pc = "done" /\ cthread[u].op = "get_metrics")
             => cthread[t].key = cthread[u].key

\* what the call that sync records returns when its scan runs to the end of the
\* store the call was made with: score_nodes without a timeout, then the limit and
\* the scaling of lines 140-143
FullScanOf(call) ==
    scale_scores(limit_results(
        score_nodes(encode(call.args.query), CHOOSE nodes \in NodeLists : TRUE,
                    call.store, call.args.score_threshold,
                    Cardinality(DOMAIN call.store)),
        call.args.top_k))

\* C35: when a search with the cache in use computed its list with a scan that its
\* timeout cut short, and the list is shorter than the list of the full scan, the
\* result cache holds no entry under the key of the call
C35_CutScanNotStored ==
    (/\ sync.how = "computed"
     /\ sync.args.use_cache
     /\ sync.cut
     /\ Len(sync.out) < Len(FullScanOf(sync)))
        => create_cache_key(sync.args.query, sync.args) \notin cache_keys(result_cache)

\* the lists the call that sync records can return with use_cache=False in the
\* state it was made in: the empty list of lines 118-128 when the embedding lookup
\* fails or the store is empty, else the list of a scan of any length its timeout
\* allows
UncachedResults(call) ==
    IF DOMAIN call.store = {} THEN { <<>> }
    ELSE { <<>> } \cup
         { scale_scores(limit_results(
               score_nodes(encode(call.args.query), CHOOSE nodes \in NodeLists : TRUE,
                           call.store, call.args.score_threshold, n),
               call.args.top_k)) :
             n \in ScanLengths(call.store, call.args.timeout) }

\* C36: a search that the result cache answered returned a list that the same call
\* without the cache could have returned in the state it was made in
C36_CacheTransparent ==
    sync.how = "hit" => sync.out \in UncachedResults(sync)

\* C37: a call of get_embedding for a text that model.encode raised for before,
\* made when the model encodes the text, invokes the model and returns its vector
C37_FailureNotRemembered ==
    (LookedUp.again /\ LookedUp.encode_ok)
        => /\ LookedUp.invoked
           /\ LookedUp.value = Some(encode(LookedUp.text))

\* C38: however many calls of perform_semantic_search(use_async=True) have been
\* made, the worker threads that run are at most one more than the calls that are
\* in progress
C38_WorkersBounded == Cardinality(LiveWorkers) <= Cardinality(InProgress) + 1

\* C39: when a call of perform_semantic_search(use_async=False) computed its list
\* and the next call has the same query, top_k and score_threshold, is made at most
\* the expiry of the result cache later and finds the store unchanged, the next
\* call is a cache hit
C39_SecondCallHits ==
    (/\ ncalls >= 2
     /\ sync.state = "performed"
     /\ sync.prev.how = "computed"
     /\ sync.args.query = sync.prev.args.query
     /\ sync.args.top_k = sync.prev.args.top_k
     /\ sync.args.score_threshold = sync.prev.args.score_threshold
     /\ sync.at - sync.prev.at <= RESULT_CACHE_EXPIRY
     /\ sync.store = sync.prev.store)
        => sync.how = "hit"

====
